---------------------------- MODULE Spec2Model ----------------------------
(***************************************************************************)
(* A model of pygenstub (src/pygenstub.py): the signature parser, the      *)
(* source walker that builds the stub tree, the type analysis and the stub *)
(* generation.                                                             *)
(*                                                                         *)
(* Text is modelled as a sequence of one-character strings, so that the    *)
(* regular expressions, slices and strip() of the source are computed on   *)
(* characters.  <<"(", "a", ")">> is the Python string "(a)".              *)
(***************************************************************************)
EXTENDS Integers, Sequences, FiniteSets, TLC

VARIABLES
    signature,   \* parse_signature: the argument
    parsed,      \* parse_signature: the outcome (NotRun before the call)
    spc          \* position of the parser run: "input" or "parsed" ("idle"
                 \* when get_stub runs)

VARIABLES
    generic,              \* StubGenerator.generic
    nodes,                \* the stub nodes, by identity; nodes[RootId] is StubGenerator.root
    _parents,             \* StubGenerator._parents, as node identities
    imported_namespaces,  \* StubGenerator.imported_namespaces, in insertion order
    imported_names,       \* StubGenerator.imported_names, in insertion order
    defined_types,        \* StubGenerator.defined_types
    required_types,       \* StubGenerator.required_types
    aliases,              \* StubGenerator.aliases, in insertion order
    frames,               \* the visit_* calls that are inside generic_visit, innermost last
    source,               \* history: the statements visited so far, with their scope
    pc,                   \* position of get_stub: "init", "walk", "walk_raised",
                          \* "returned" or "generate_raised" ("idle" when the
                          \* parser runs alone; "made" and "coded" when
                          \* FunctionNode.get_code runs alone; "run" and
                          \* "run_raised" when run is between two units
                          \* and when an exception left it)
    exception,            \* the exception that left get_stub, NoException if none
    stub                  \* the text get_stub returned: a sequence of lines; NoStub before

VARIABLES
    sources,     \* run: the units to process, each the statement its source holds
    unit,        \* run: the number of units taken from `sources` so far
    files        \* run: the stub files written, as [unit, text] records

sigvars == <<signature, parsed, spc>>

runvars == <<sources, unit, files>>

walkvars == <<generic, nodes, _parents, imported_namespaces, imported_names,
              defined_types, required_types, aliases, frames, source, pc,
              exception, stub>>

vars == <<signature, parsed, spc, generic, nodes, _parents, imported_namespaces,
          imported_names, defined_types, required_types, aliases, frames,
          source, pc, exception, stub, sources, unit, files>>

\* run is not called.
NoRun == sources = <<>> /\ unit = 0 /\ files = <<>>

\* An optional value is None or Some(v), and then v is its element.
None == <<>>
Some(v) == <<v>>
NotRun == "NotRun"

(***************************************************************************)
(* Characters                                                              *)
(***************************************************************************)

\* \s of the re module, on the characters the model uses.
IsSpace(c) == c \in {" ", "\n", "\t"}

\* \w of the re module, on the characters the model uses.
WordChars ==
    {"a", "b", "c", "d", "e", "f", "g", "h", "i", "j", "k", "l", "m", "n",
     "o", "p", "q", "r", "s", "t", "u", "v", "w", "x", "y", "z",
     "A", "B", "C", "D", "E", "F", "G", "H", "I", "J", "K", "L", "M", "N",
     "O", "P", "Q", "R", "S", "T", "U", "V", "W", "X", "Y", "Z",
     "0", "1", "2", "3", "4", "5", "6", "7", "8", "9", "_"}

IsWord(c) == c \in WordChars

\* s[i:] of Python with the model's 1-based positions: from position i on.
From(s, i) == SubSeq(s, i, Len(s))

\* The first position >= i of s that holds no whitespace, Len(s) + 1 if none.
SkipSpace(s, i) ==
    IF \E k \in i..Len(s) : ~IsSpace(s[k])
    THEN CHOOSE k \in i..Len(s) :
            /\ ~IsSpace(s[k])
            /\ \A j \in i..(k - 1) : IsSpace(s[j])
    ELSE Len(s) + 1

\* str.strip(): whitespace removed at both ends.
strip(s) ==
    LET first == SkipSpace(s, 1)
        last  == IF first > Len(s) THEN 0
                 ELSE CHOOSE k \in first..Len(s) :
                        /\ ~IsSpace(s[k])
                        /\ \A j \in (k + 1)..Len(s) : IsSpace(s[j])
    IN  SubSeq(s, first, last)

(***************************************************************************)
(* SIGNATURE PROCESSING                                                    *)
(***************************************************************************)

\* A match of \s+->\s+ that starts at position i: the position after the
\* match, 0 when the pattern does not match at i.  Both \s+ are greedy and
\* neither "-" nor ">" is whitespace, so there is no backtracking.
_RE_SIG_ARROW_match(s, i) ==
    IF i > Len(s) \/ ~IsSpace(s[i]) THEN 0
    ELSE LET q == SkipSpace(s, i)
         IN  IF /\ q + 2 <= Len(s)
                /\ s[q] = "-"
                /\ s[q + 1] = ">"
                /\ IsSpace(s[q + 2])
             THEN SkipSpace(s, q + 2)
             ELSE 0

\* _RE_SIG_ARROW.split(signature): the pieces between the leftmost,
\* non-overlapping matches; `last` is where the current piece starts and i
\* the position the search has reached.
RECURSIVE _RE_SIG_ARROW_split(_, _, _)
_RE_SIG_ARROW_split(s, i, last) ==
    IF i > Len(s) THEN <<From(s, last)>>
    ELSE LET e == _RE_SIG_ARROW_match(s, i)
         IN  IF e # 0
             THEN <<SubSeq(s, last, i - 1)>> \o _RE_SIG_ARROW_split(s, e, e)
             ELSE _RE_SIG_ARROW_split(s, i + 1, last)

\* A plausible slip: the pattern \w+ alone, without the dotted continuation.
RECURSIVE _RE_QUALIFIED_TYPES_end_undotted(_, _)
_RE_QUALIFIED_TYPES_end_undotted(s, i) ==
    IF i + 1 <= Len(s) /\ IsWord(s[i + 1])
    THEN _RE_QUALIFIED_TYPES_end_undotted(s, i + 1)
    ELSE i

\* The end of the match of \w+(?:\.\w+)* that starts at the word character
\* at position i: the last position of the match.
RECURSIVE _RE_QUALIFIED_TYPES_end(_, _)
_RE_QUALIFIED_TYPES_end(s, i) ==
    IF i + 1 <= Len(s) /\ IsWord(s[i + 1])
    THEN _RE_QUALIFIED_TYPES_end(s, i + 1)
    ELSE IF i + 2 <= Len(s) /\ s[i + 1] = "." /\ IsWord(s[i + 2])
         THEN _RE_QUALIFIED_TYPES_end(s, i + 2)
         ELSE i

\* _RE_QUALIFIED_TYPES.findall(s) as a set, scanning from position i.
RECURSIVE _RE_QUALIFIED_TYPES_findall(_, _)
_RE_QUALIFIED_TYPES_findall(s, i) ==
    IF i > Len(s) THEN {}
    ELSE IF IsWord(s[i])
         THEN LET e == _RE_QUALIFIED_TYPES_end(s, i)
              IN  {SubSeq(s, i, e)} \cup _RE_QUALIFIED_TYPES_findall(s, e + 1)
         ELSE _RE_QUALIFIED_TYPES_findall(s, i + 1)

\* A plausible slip: every comma splits, whatever the bracket depth.
RECURSIVE _split_types_commas_any_depth(_, _, _)
_split_types_commas_any_depth(decl, i, bracket_depth) ==
    IF i > Len(decl) THEN <<>>
    ELSE IF decl[i] = ","
         THEN <<i>> \o _split_types_commas_any_depth(decl, i + 1, bracket_depth)
         ELSE _split_types_commas_any_depth(decl, i + 1, bracket_depth)

\* The first loop of _split_types: the positions of the commas met at
\* bracket depth 0, scanning from position i at depth bracket_depth.
RECURSIVE _split_types_commas(_, _, _)
_split_types_commas(decl, i, bracket_depth) ==
    IF i > Len(decl) THEN <<>>
    ELSE IF decl[i] = "," /\ bracket_depth = 0
         THEN <<i>> \o _split_types_commas(decl, i + 1, bracket_depth)
         ELSE IF decl[i] = "["
              THEN _split_types_commas(decl, i + 1, bracket_depth + 1)
              ELSE IF decl[i] = "]"
                   THEN _split_types_commas(decl, i + 1, bracket_depth - 1)
                   ELSE _split_types_commas(decl, i + 1, bracket_depth)

\* A plausible slip: the slices are not stripped.
RECURSIVE _split_types_slices_unstripped(_, _, _)
_split_types_slices_unstripped(decl, commas, last_i) ==
    IF commas = <<>> THEN <<From(decl, last_i)>>
    ELSE <<SubSeq(decl, last_i, Head(commas) - 1)>>
            \o _split_types_slices_unstripped(decl, Tail(commas), Head(commas) + 1)

\* The second loop of _split_types: the stripped slices between the commas,
\* and the slice after the last one (the for/else).
RECURSIVE _split_types_slices(_, _, _)
_split_types_slices(decl, commas, last_i) ==
    IF commas = <<>> THEN <<strip(From(decl, last_i))>>
    ELSE <<strip(SubSeq(decl, last_i, Head(commas) - 1))>>
            \o _split_types_slices(decl, Tail(commas), Head(commas) + 1)

_split_types(decl) ==
    IF decl = <<>> THEN <<>>
    ELSE _split_types_slices(decl, _split_types_commas(decl, 1, 0), 1)

\* What a call returns: a value, or the exception that leaves it.  The
\* message of an exception is the sequence of the parts the source joins.
Returned(v) == [ok |-> TRUE, value |-> v]
Raised(exc, msg) == [ok |-> FALSE, exc |-> exc, msg |-> msg]

\* A plausible slip: the test on the number of parts is off by one.
multiple_arrows_off_by_one(sig_parts) == Len(sig_parts) > 3

\* The test `len(sig_parts) > 2` of parse_signature.
multiple_arrows(sig_parts) == Len(sig_parts) > 2

parse_signature(sig) ==
    LET sig_parts == _RE_SIG_ARROW_split(sig, 1, 1)
        requires  == _RE_QUALIFIED_TYPES_findall(sig, 1)
    IN  IF multiple_arrows(sig_parts)
        THEN Raised("ValueError", <<"multiple arrows in signature">>)
        ELSE IF Len(sig_parts) = 1
             THEN Returned([param_types |-> None,
                            return_type |-> strip(sig),
                            requires    |-> requires])
             ELSE LET lhs         == strip(sig_parts[1])
                      return_type == strip(sig_parts[2])
                  IN  IF lhs = <<>>
                      THEN \* lhs[0] of the empty string
                           Raised("IndexError", <<"string index out of range">>)
                      ELSE IF lhs[1] # "(" \/ lhs[Len(lhs)] # ")"
                           THEN Raised("ValueError",
                                  <<"missing parentheses around parameter list in signature">>)
                           ELSE LET csv == strip(SubSeq(lhs, 2, Len(lhs) - 1))
                                IN  Returned([param_types |-> Some(_split_types(csv)),
                                              return_type |-> return_type,
                                              requires    |-> requires])

(***************************************************************************)
(* AST PROCESSING                                                          *)
(*                                                                         *)
(* A stub node is a record; nodes holds them by identity (their position), *)
(* parent and children are identities.  Names of types, modules and        *)
(* aliases are texts; names of functions, parameters and variables are     *)
(* strings.  A statement of the source is a record shaped like its ast     *)
(* node.                                                                   *)
(***************************************************************************)

NoNode == 0          \* None as a node
RootId == 1          \* StubGenerator.root
NoException == [ok |-> TRUE]
NoStub == "NoStub"
Unset == "Unset"     \* an attribute that was never assigned

T_Any == <<"A", "n", "y">>
T_int == <<"i", "n", "t">>
T_str == <<"s", "t", "r">>
T_None == <<"N", "o", "n", "e">>
T_Dict == <<"D", "i", "c", "t">>
T_List == <<"L", "i", "s", "t">>
T_Optional == <<"O", "p", "t", "i", "o", "n", "a", "l">>

\* _BUILTIN_TYPES: the types of builtins that the model's sources use, and
\* "None".
_BUILTIN_TYPES == {T_int, T_str, T_None}

\* hasattr(typing_mod, name), on the names the model's sources use.
typing_has(name) == name \in {T_Any, T_Dict, T_List, T_Optional}

AS_MARK == <<":", ":">>

\* StubNode.__init__
StubNode == [cls |-> "StubNode", parent |-> NoNode, children |-> <<>>]

\* VariableNode.__init__
VariableNode(name, type_) ==
    [cls |-> "VariableNode", parent |-> NoNode, children |-> <<>>,
     name |-> name, type_ |-> type_]

\* FunctionNode.__init__; _async is the attribute visit_FunctionDef and
\* visit_AsyncFunctionDef assign later.
FunctionNode(name, parameters, rtype, decorators) ==
    [cls |-> "FunctionNode", parent |-> NoNode, children |-> <<>>,
     name |-> name, async_ |-> FALSE, parameters |-> parameters,
     rtype |-> rtype, decorators |-> decorators, _async |-> Unset]

\* ClassNode.__init__
ClassNode(name, bases, sig) ==
    [cls |-> "ClassNode", parent |-> NoNode, children |-> <<>>,
     name |-> name, bases |-> bases, signature |-> sig]

\* History: the node with the position in `source` of the statement it was
\* made for.
MadeAt(node, lineno) ==
    [f \in DOMAIN node \cup {"lineno"} |->
        IF f = "lineno" THEN lineno ELSE node[f]]

\* A plausible slip: the child is appended and its parent is left unset.
add_child_without_parent(ns, self, node) ==
    Append([ns EXCEPT ![self].children = Append(@, Len(ns) + 1)], node)

\* StubNode.add_child: self.children.append(node); node.parent = self
add_child(ns, self, node) ==
    Append([ns EXCEPT ![self].children = Append(@, Len(ns) + 1)],
           [node EXCEPT !.parent = self])

\* d[key] = value of a dict, which keeps its keys in insertion order.
DictSet(d, key, value) ==
    IF \E i \in DOMAIN d : d[i].key = key
    THEN [i \in DOMAIN d |->
            IF d[i].key = key THEN [key |-> key, value |-> value] ELSE d[i]]
    ELSE Append(d, [key |-> key, value |-> value])

DictKeys(d) == {d[i].key : i \in DOMAIN d}

DictGet(d, key) == d[CHOOSE i \in DOMAIN d : d[i].key = key].value

\* str.split(sep): the pieces between the occurrences of sep, left to right.
RECURSIVE str_split(_, _, _, _)
str_split(s, sep, i, last) ==
    IF i + Len(sep) - 1 > Len(s) THEN <<From(s, last)>>
    ELSE IF SubSeq(s, i, i + Len(sep) - 1) = sep
         THEN <<SubSeq(s, last, i - 1)>>
                \o str_split(s, sep, i + Len(sep), i + Len(sep))
         ELSE str_split(s, sep, i + 1, last)

split(s, sep) == str_split(s, sep, 1, 1)

\* sep in s
contains(s, sep) == Len(split(s, sep)) > 1

\* get_aliases: the (alias, signature) groups of the lines that match
\* _RE_SIG_ALIAS, assigned to a dict in line order.
RECURSIVE get_aliases(_)
get_aliases(matches) ==
    IF matches = <<>> THEN <<>>
    ELSE LET m == matches[Len(matches)]
         IN  DictSet(get_aliases(SubSeq(matches, 1, Len(matches) - 1)),
                     m.alias, m.signature)

\* The loop of collect_aliases over the first k aliases: the required and
\* the defined types it adds, or the exception parse_signature raises.
RECURSIVE collect_aliases_loop(_, _)
collect_aliases_loop(als, k) ==
    IF k = 0 THEN Returned([required_types |-> {}, defined_types |-> {}])
    ELSE LET before == collect_aliases_loop(als, k - 1)
             p      == parse_signature(als[k].value)
         IN  IF ~before.ok THEN before
             ELSE IF ~p.ok THEN p
                  ELSE Returned(
                        [required_types |->
                            before.value.required_types \cup p.value.requires,
                         defined_types |->
                            before.value.defined_types \cup {als[k].key}])

\* The key of visit_Import and visit_ImportFrom for one imported name.
imported_key(name) ==
    IF name.asname # None THEN name.asname[1] \o AS_MARK \o name.name
    ELSE name.name

\* The loop `for name in node.names` of visit_Import and visit_ImportFrom.
RECURSIVE import_loop(_, _, _)
import_loop(d, names, module_name) ==
    IF names = <<>> THEN d
    ELSE import_loop(DictSet(d, imported_key(Head(names)), module_name),
                     Tail(names), module_name)

\* A plausible slip: the target self.<name> is added to the current parent,
\* the node of the method.
assign_target_current_parent(var, parent, ns) ==
    IF var.type = "Name" THEN [name |-> Some(var.id), p |-> parent]
    ELSE IF /\ var.type = "Attribute"
            /\ var.value.type = "Name"
            /\ var.value.id = "self"
         THEN [name |-> Some(var.attr), p |-> parent]
         ELSE [name |-> None, p |-> NoNode]

\* The name visit_Assign gives a target and the node it is added to, or
\* name None.
assign_target(var, parent, ns) ==
    IF var.type = "Name" THEN [name |-> Some(var.id), p |-> parent]
    ELSE IF /\ var.type = "Attribute"
            /\ var.value.type = "Name"
            /\ var.value.id = "self"
         THEN [name |-> Some(var.attr), p |-> ns[parent].parent]
         ELSE [name |-> None, p |-> NoNode]

\* The loop of visit_Assign over node.targets; st holds the nodes and the
\* required types so far and the exception that ended the loop, if any.
RECURSIVE assign_loop(_, _, _, _, _, _)
assign_loop(st, targets, parent, return_type, gen, lineno) ==
    IF targets = <<>> \/ ~st.exception.ok THEN st
    ELSE LET t  == assign_target(Head(targets), parent, st.nodes)
             ty == IF gen THEN T_Any ELSE return_type
             rq == IF gen THEN st.required_types \cup {T_Any}
                   ELSE st.required_types
         IN  IF t.name = None
             THEN assign_loop(st, Tail(targets), parent, return_type, gen, lineno)
             ELSE IF t.p = NoNode
                  THEN \* p.add_child with p = None
                       [st EXCEPT !.required_types = rq,
                                  !.exception = Raised("AttributeError",
                                      <<"'NoneType' object has no attribute 'add_child'">>)]
                  ELSE assign_loop(
                        [st EXCEPT
                            !.required_types = rq,
                            !.nodes = add_child(@, t.p,
                                MadeAt(VariableNode(t.name[1], ty), lineno))],
                        Tail(targets), parent, return_type, gen, lineno)

\* visit_Assign, from the state st of the generator.  node.sig_comments are
\* the texts that follow the "# sig:" markers of the line once the markers
\* inside string literals are removed.
visit_Assign_result(st, node, parent, gen, lineno) ==
    IF node.sig_comments = <<>> /\ ~gen THEN st
    ELSE IF Len(node.sig_comments) > 1
         THEN \* _, signature = line.split(_SIG_COMMENT)
              [st EXCEPT !.exception =
                    Raised("ValueError", <<"too many values to unpack (expected 2)">>)]
         ELSE LET p == IF node.sig_comments = <<>> THEN Returned(None)
                       ELSE parse_signature(node.sig_comments[1])
              IN  IF ~p.ok THEN [st EXCEPT !.exception = p]
                  ELSE IF node.sig_comments = <<>>
                       THEN assign_loop(st, node.targets, parent, Unset, gen, lineno)
                       ELSE assign_loop(
                              [st EXCEPT !.required_types = @ \cup p.value.requires],
                              node.targets, parent, p.value.return_type, gen, lineno)

\* extract_signature of a docstring, which is modelled by the bodies of
\* its "sig" fields.
extract_signature(docstring) ==
    IF Len(docstring) = 0 THEN Returned(None)
    ELSE IF Len(docstring) > 1
         THEN Raised("ValueError", <<"multiple signature fields">>)
         ELSE Returned(Some(docstring[1]))

\* `signature` of get_function_node and visit_ClassDef, before the class's
\* signature is considered; node.docstring is ast.get_docstring(node).
docstring_signature(node) ==
    IF node.docstring = None THEN Returned(None)
    ELSE extract_signature(node.docstring[1])


Range(seq) == {seq[i] : i \in DOMAIN seq}

\* The name the decorator loop of get_function_node appends for the
\* decorator expression d (None when it appends nothing), or the
\* AttributeError of d.func.id, d.value.id or d.attr.  A Name has `id`, a
\* Call has `func`, an Attribute and a Subscript have `value`.  A decorator
\* name is kept as its identifiers and dots: <<"x", ".", "setter">>.
decorator_name(d) ==
    IF d.type = "Name" THEN Returned(Some(<<d.id>>))
    ELSE IF d.type = "Call"
         THEN IF d.func.type = "Name" THEN Returned(Some(<<d.func.id>>))
              ELSE Raised("AttributeError", <<"object has no attribute 'id'">>)
         ELSE IF d.type \in {"Attribute", "Subscript"}
              THEN IF d.value.type # "Name"
                   THEN Raised("AttributeError", <<"object has no attribute 'id'">>)
                   ELSE IF d.type # "Attribute"
                        THEN Raised("AttributeError", <<"object has no attribute 'attr'">>)
                        ELSE Returned(Some(<<d.value.id, ".", d.attr>>))
              ELSE Returned(None)

RECURSIVE decorators_loop(_)
decorators_loop(decorator_list) ==
    IF decorator_list = <<>> THEN Returned(<<>>)
    ELSE LET n    == Len(decorator_list)
             dn   == decorator_name(decorator_list[n])
             rest == decorators_loop(SubSeq(decorator_list, 1, n - 1))
         IN  IF ~rest.ok THEN rest
             ELSE IF ~dn.ok THEN dn
                  ELSE IF dn.value = None THEN rest
                       ELSE Returned(Append(rest.value, dn.value[1]))

\* A plausible slip: the signature of the class is given to every method
\* without one.
governing_signature_any_method(own, node, parent) ==
    IF own = None /\ parent.cls = "ClassNode" THEN parent.signature ELSE own

\* The signature that governs a definition: its own, or for an __init__
\* whose parent is a ClassNode the signature of the class.
governing_signature(own, node, parent) ==
    IF own = None /\ parent.cls = "ClassNode" /\ node.name = "__init__"
    THEN parent.signature
    ELSE own

\* A plausible slip: a first parameter `cls` counts whatever the decorators.
is_receiver_any_cls(param_names, decorators) ==
    /\ Len(param_names) > 0
    /\ param_names[1] \in {"self", "cls"}

\* The test that gives the first parameter the empty type.
is_receiver(param_names, decorators) ==
    \/ Len(param_names) > 0 /\ param_names[1] = "self"
    \/ /\ Len(param_names) > 0 /\ param_names[1] = "cls"
       /\ <<"classmethod">> \in Range(decorators)

\* The positions of a definition's parameters in the text of its parameter
\* list: every parameter name and every default value has its own place, in
\* the order of the text.
arg_loc(i) == 3 * i
default_loc(i) == 3 * i + 1

\* bisect(a, x) for a sorted list a: the number of entries that are <= x.
bisect(a, x) == Cardinality({k \in DOMAIN a : a[k] <= x})

\* param_defaults of get_function_node, as 0-based indices.
get_param_defaults(node) ==
    LET n_args     == Len(node.args.args)
        n_kw       == Len(node.args.kwonlyargs)
        \* the keyword-only parameters follow the positional ones and *args
        param_locs == [k \in 1..(n_args + n_kw) |->
                        IF k <= n_args THEN arg_loc(k) ELSE arg_loc(k + 1)]
        defaults   == {default_loc(k) : k \in
                        {j \in 1..n_args : node.args.args[j].has_default}}
    IN  {bisect(param_locs, d) - 1 : d \in defaults}
            \cup {n_args + (i - 1) : i \in
                    {j \in 1..n_kw : node.args.kwonlyargs[j].has_default}}

\* The test `len(param_types) != len(param_names)`.
arity_mismatch(param_types, param_names) == Len(param_types) # Len(param_names)

\* param_types, rtype and requires of get_function_node: those of generic
\* mode, or the outcome of parse_signature.
signature_types(sig, n_args) ==
    IF sig = None
    THEN Returned([param_types |-> Some([i \in 1..n_args |-> T_Any]),
                   return_type |-> T_Any,
                   requires    |-> {T_Any}])
    ELSE parse_signature(sig[1])

\* param_names of get_function_node once *args, **kwargs and the
\* keyword-only parameters are appended.
get_param_names(args) ==
    [i \in 1..Len(args.args) |-> args.args[i].arg]
        \o (IF args.vararg # None THEN <<"*" \o args.vararg[1]>> ELSE <<>>)
        \o (IF args.kwarg # None THEN <<"**" \o args.kwarg[1]>> ELSE <<>>)
        \o [i \in 1..Len(args.kwonlyargs) |-> args.kwonlyargs[i].arg]

\* param_types of get_function_node once the slot of the receiver and those
\* of *args and **kwargs are added to the types t0 of the signature.
get_param_types(args, sig, receiver, t0) ==
    (IF ~receiver THEN t0
     ELSE IF sig = None THEN [t0 EXCEPT ![1] = <<>>]
          ELSE <<<<>>>> \o t0)
        \o (IF args.vararg # None THEN <<<<>>>> ELSE <<>>)
        \o (IF args.kwarg # None THEN <<<<>>>> ELSE <<>>)
        \o (IF sig = None THEN [i \in 1..Len(args.kwonlyargs) |-> T_Any]
            ELSE <<>>)

\* `params` of get_function_node.
get_params(node, names, types, param_defaults) ==
    LET n_args == Len(node.args.args)
        zipped == [i \in 1..Len(names) |->
                    [name |-> names[i], type_ |-> types[i],
                     has_default |-> (i - 1) \in param_defaults]]
    IN  IF Len(node.args.kwonlyargs) > 0
        THEN [i \in 1..(Len(names) + 1) |->
                IF i <= n_args THEN zipped[i]
                ELSE IF i = n_args + 1
                     THEN [name |-> "*", type_ |-> <<>>, has_default |-> FALSE]
                     ELSE zipped[i - 1]]
        ELSE zipped

\* get_function_node from the test of the lengths on.
check_arity(node, decorators, parsed_sig, names, types) ==
    IF arity_mismatch(types, names)
    THEN [outcome |-> "raise", requires |-> parsed_sig.requires,
          exception |->
            Raised("ValueError",
                   <<"Parameter names and types don't match: ", node.name>>)]
    ELSE [outcome |-> "node",
          requires |-> parsed_sig.requires,
          stub_node |-> FunctionNode(node.name,
                            get_params(node, names, types,
                                       get_param_defaults(node)),
                            parsed_sig.return_type, decorators)]

\* get_function_node from the outcome p of signature_types on.
reconcile_types(node, decorators, sig, p, receiver) ==
    IF ~p.ok THEN [outcome |-> "raise", exception |-> p, requires |-> {}]
    ELSE IF p.value.param_types = None
    THEN \* a signature without an arrow: param_types is None
         IF receiver
         THEN [outcome |-> "raise", requires |-> {}, exception |->
                Raised("AttributeError",
                       <<"'NoneType' object has no attribute 'insert'">>)]
         ELSE [outcome |-> "raise", requires |-> p.value.requires,
               exception |->
                IF node.args.vararg # None \/ node.args.kwarg # None
                THEN Raised("AttributeError",
                            <<"'NoneType' object has no attribute 'append'">>)
                ELSE Raised("TypeError",
                            <<"object of type 'NoneType' has no len()">>)]
    ELSE check_arity(node, decorators, p.value, get_param_names(node.args),
            get_param_types(node.args, sig, receiver, p.value.param_types[1]))

\* get_function_node from the parameter names on, for a definition with the
\* governing signature sig (None in generic mode): the FunctionNode and the
\* required types, or the exception with the types required before it.
reconcile(node, decorators, sig) ==
    reconcile_types(node, decorators, sig,
        signature_types(sig, Len(node.args.args)),
        is_receiver([i \in 1..Len(node.args.args) |-> node.args.args[i].arg],
                    decorators))

\* The test `(signature is None) and (not self.generic)`.
skip_unsigned(sig, gen) == sig = None /\ ~gen

\* get_function_node from the decorators and the docstring's signature on.
with_signature(node, parent, gen, decorators, own) ==
    IF ~decorators.ok
    THEN [outcome |-> "raise", exception |-> decorators, requires |-> {}]
    ELSE IF ~own.ok
    THEN [outcome |-> "raise", exception |-> own, requires |-> {}]
    ELSE IF skip_unsigned(governing_signature(own.value, node, parent), gen)
    THEN [outcome |-> "skip"]
    ELSE reconcile(node, decorators.value,
                   governing_signature(own.value, node, parent))

\* get_function_node up to the call of generic_visit: outcome "skip" for
\* `return None`, "raise" with the exception, or "node" with the FunctionNode
\* to add and the types to require.
get_function_node(node, parent, gen) ==
    with_signature(node, parent, gen, decorators_loop(node.decorator_list),
                   docstring_signature(node))

\* The dotted name visit_ClassDef builds for the base expression n, or the
\* AttributeError of n.id on an expression that is no Name.
RECURSIVE base_name(_)
base_name(n) ==
    IF n.type = "Attribute"
    THEN LET v == base_name(n.value)
         IN  IF v.ok THEN Returned(v.value \o <<".">> \o n.attr) ELSE v
    ELSE IF n.type = "Name" THEN Returned(n.id)
         ELSE Raised("AttributeError", <<"object has no attribute 'id'">>)

RECURSIVE bases_loop(_)
bases_loop(bases) ==
    IF bases = <<>> THEN Returned(<<>>)
    ELSE LET n    == Len(bases)
             rest == bases_loop(SubSeq(bases, 1, n - 1))
             b    == base_name(bases[n])
         IN  IF ~rest.ok THEN rest
             ELSE IF ~b.ok THEN b
                  ELSE Returned(Append(rest.value, b.value))


(***************************************************************************)
(* TYPE ANALYSIS AND STUB TEXT                                             *)
(*                                                                         *)
(* A line of stub text is a sequence of strings: the fixed pieces the      *)
(* source writes ("class ", "def ", INDENT, ...), names, and the           *)
(* characters of texts.  The empty line is <<>>.  A stub is the sequence   *)
(* of its lines, each of which the source ends with "\n"; the empty stub   *)
(* <<>> is the Python string "".                                           *)
(***************************************************************************)

MAX_LINE_LENGTH == 79
INDENT == "    "

_SUPPORTED_DECORATORS == {<<"property">>, <<"staticmethod">>, <<"classmethod">>}

\* The printable characters in the order of their code points, from the
\* space on; the quote, the backslash and the backtick, which no text of
\* the model holds, only keep their places.
Printable ==
    <<
      " ", "!", "<quote>", "#", "$", "%", "&", "'", "(", ")", "*", "+",
      ",", "-", ".", "/", "0", "1", "2", "3", "4", "5", "6", "7",
      "8", "9", ":", ";", "<", "=", ">", "?", "@", "A", "B", "C",
      "D", "E", "F", "G", "H", "I", "J", "K", "L", "M", "N", "O",
      "P", "Q", "R", "S", "T", "U", "V", "W", "X", "Y", "Z", "[",
      "<backslash>", "]", "^", "_", "<backtick>", "a", "b", "c", "d", "e", "f", "g",
      "h", "i", "j", "k", "l", "m", "n", "o", "p", "q", "r", "s",
      "t", "u", "v", "w", "x", "y", "z", "{", "|", "}", "~" >>

\* ord(c)
ord(c) == 31 + (CHOOSE i \in DOMAIN Printable : Printable[i] = c)

\* s < t for str: the order sorted() uses.
RECURSIVE str_lt(_, _)
str_lt(s, t) ==
    IF t = <<>> THEN FALSE
    ELSE IF s = <<>> THEN TRUE
    ELSE IF Head(s) = Head(t) THEN str_lt(Tail(s), Tail(t))
    ELSE ord(Head(s)) < ord(Head(t))

\* sorted(names) of a set of str
RECURSIVE sorted(_)
sorted(names) ==
    IF names = {} THEN <<>>
    ELSE LET least == CHOOSE n \in names : \A m \in names \ {n} : str_lt(n, m)
         IN  <<least>> \o sorted(names \ {least})

\* sep.join(parts), the parts and sep being sequences
RECURSIVE join(_, _)
join(sep, parts) ==
    IF parts = <<>> THEN <<>>
    ELSE IF Len(parts) = 1 THEN parts[1]
    ELSE parts[1] \o sep \o join(sep, Tail(parts))

\* len(line) of a line of stub text
RECURSIVE len(_)
len(line) == IF line = <<>> THEN 0 ELSE Len(Head(line)) + len(Tail(line))

\* A plausible slip: find instead of rfind, name[: name.find(".")].
RECURSIVE up_to_first_dot(_)
up_to_first_dot(name) ==
    IF Head(name) = "." THEN <<>>
    ELSE <<Head(name)>> \o up_to_first_dot(Tail(name))

\* name[: name.rfind(".")] of a name that holds a "."
RECURSIVE up_to_last_dot(_)
up_to_last_dot(name) ==
    IF name[Len(name)] = "." THEN SubSeq(name, 1, Len(name) - 1)
    ELSE up_to_last_dot(SubSeq(name, 1, Len(name) - 1))

\* `name in module_vars` of analyze_types, for a name (a str) and the set of
\* VariableNode objects the source calls module_vars: a node does not
\* define __eq__, so no str is equal to one.
in_module_vars(name, module_vars) == \E v \in module_vars : FALSE

\* A plausible slip: the types the typing module provides are not removed
\* from the needed types.
minus_typing_forgotten(needed_types, typing_types) == needed_types

\* `needed_types -= typing_types`
minus_typing(needed_types, typing_types) == needed_types \ typing_types

\* A plausible slip: the namespaces of the qualified names are left out.
imported_used_types_only(imported_names_, needed_types, needed_modules) ==
    imported_names_ \cap needed_types

\* A plausible slip: the from-imported names stay among the needed modules.
minus_imported_forgotten(needed_modules, imported_names_) == needed_modules

\* `needed_modules -= imported_names`
minus_imported(needed_modules, imported_names_) ==
    needed_modules \ imported_names_

\* `imported_names & (needed_types | needed_modules)`
imported_used(imported_names_, needed_types, needed_modules) ==
    imported_names_ \cap (needed_types \cup needed_modules)

\* analyze_types: the report (an absent key is None), or the ValueError
\* whose message joins the unresolved names (in the order of a set, so the
\* model keeps the set).
analyze_types(ns, required, defined, imp_names) ==
    LET needed0         == (required \ _BUILTIN_TYPES) \ defined
        qualified_types == {name \in needed0 : contains(name, <<".">>)}
        needed1         == needed0 \ qualified_types
        module_vars     == {i \in Range(ns[RootId].children) :
                                ns[i].cls = "VariableNode"}
        needed_modules0 == {up_to_last_dot(name) : name \in
                             {q \in qualified_types :
                                ~in_module_vars(q, module_vars)}}
        local_names     == {split(k, AS_MARK)[1] : k \in DictKeys(imp_names)}
        used            == imported_used(local_names, needed1, needed_modules0)
        needed2         == needed1 \ used
        needed_modules  == minus_imported(needed_modules0, local_names)
        typing_types    == {name \in needed2 : typing_has(name)}
        needed_types    == minus_typing(needed2, typing_types)
    IN  IF needed_types # {}
        THEN Raised("ValueError", <<"unresolved types: ", needed_types>>)
        ELSE Returned([imported |-> IF used # {} THEN Some(used)
                                    ELSE None,
                       modules  |-> IF needed_modules # {} THEN Some(needed_modules)
                                    ELSE None,
                       typing   |-> IF typing_types # {} THEN Some(typing_types)
                                    ELSE None])

\* The clause generate_import_from writes for one "alias::name".
import_as_clause(module_, as_name) ==
    LET a == split(as_name, AS_MARK)[1]
        n == split(as_name, AS_MARK)[2]
    IN  <<"from ">> \o module_ \o <<" import ">> \o n \o <<" as ">> \o a

\* generate_import_from: the lines of the text it returns.
generate_import_from(module_, names) ==
    LET regular_names == {n \in names : ~contains(n, AS_MARK)}
        as_names      == sorted({n \in names : contains(n, AS_MARK)})
        one_line      == <<"from ">> \o module_ \o <<" import ">>
                            \o join(<<", ">>, sorted(regular_names))
        regular_lines ==
            IF regular_names = {} THEN <<>>
            ELSE IF len(one_line) > MAX_LINE_LENGTH
                 THEN <<(<<"from ">> \o module_ \o <<" import (">>)>>
                        \o [i \in 1..Cardinality(regular_names) |->
                              <<INDENT>> \o sorted(regular_names)[i] \o <<",">>]
                        \o << <<")">> >>
                 ELSE <<one_line>>
        as_clauses    == [i \in DOMAIN as_names |->
                            import_as_clause(module_, as_names[i])]
    IN  IF as_names = <<>>
        THEN IF regular_names = {} THEN << <<>> >> ELSE regular_lines
        ELSE regular_lines \o <<join(<<>>, as_clauses)>>

\* VariableNode.get_code
VariableNode_get_code(node) ==
    << <<node.name, " = ...  # type: ">> \o node.type_ >>

\* The text of one parameter in FunctionNode.get_code.
param_decl(param) ==
    <<param.name>>
        \o (IF param.type_ # <<>> THEN <<": ">> \o param.type_ ELSE <<>>)
        \o (IF param.has_default THEN <<" = ...">> ELSE <<>>)

\* A plausible slip: a line of MAX_LINE_LENGTH characters counts as too long.
fits_strictly(line) == len(line) < MAX_LINE_LENGTH

\* The test `len(line) <= MAX_LINE_LENGTH` of FunctionNode.get_code.
fits(line) == len(line) <= MAX_LINE_LENGTH

\* FunctionNode.get_code
FunctionNode_get_code(node) ==
    LET shown      == SelectSeq(node.decorators,
                        LAMBDA deco : \/ deco \in _SUPPORTED_DECORATORS
                                      \/ /\ Len(deco) >= 2
                                         /\ SubSeq(deco, Len(deco) - 1, Len(deco))
                                              = <<".", "setter">>)
        decos      == [i \in DOMAIN shown |-> <<"@">> \o shown[i]]
        parameters == [i \in DOMAIN node.parameters |->
                         param_decl(node.parameters[i])]
        a          == IF node.async_ THEN <<"async ">> ELSE <<>>
        p          == join(<<", ">>, parameters)
        opening    == a \o <<"def ", node.name, "(">>
        closing    == <<") -> ">> \o node.rtype \o <<": ...">>
        prototype  == opening \o p \o closing
    IN  IF fits(prototype)
        THEN decos \o <<prototype>>
        ELSE IF fits(<<INDENT>> \o p)
             THEN decos \o <<opening, <<INDENT>> \o p, closing>>
             ELSE decos \o <<opening>>
                    \o [i \in DOMAIN parameters |->
                          <<INDENT>> \o parameters[i] \o <<",">>]
                    \o <<closing>>

RECURSIVE concat(_)
concat(lists) ==
    IF lists = <<>> THEN <<>> ELSE Head(lists) \o concat(Tail(lists))

\* A plausible slip: the variables of a class are separated from its
\* methods as well.
separated_in_any_node(variables, nonvariables, self_cls) ==
    /\ Len(variables) > 0
    /\ Len(nonvariables) > 0

\* The condition of `stub.append("")` in StubNode.get_code.
separated(variables, nonvariables, self_cls) ==
    /\ Len(variables) > 0
    /\ Len(nonvariables) > 0
    /\ self_cls # "ClassNode"

RECURSIVE get_code(_, _)
RECURSIVE StubNode_get_code(_, _)

\* StubNode.get_code of the node self
StubNode_get_code(ns, self) ==
    LET variables    == SelectSeq(ns[self].children,
                            LAMBDA n : ns[n].cls = "VariableNode")
        nonvariables == SelectSeq(ns[self].children,
                            LAMBDA n : ns[n].cls # "VariableNode")
    IN  concat([i \in DOMAIN variables |-> get_code(ns, variables[i])])
          \o (IF separated(variables, nonvariables, ns[self].cls)
              THEN << <<>> >> ELSE <<>>)
          \o concat([i \in DOMAIN nonvariables |-> get_code(ns, nonvariables[i])])

\* ClassNode.get_code of the node self
ClassNode_get_code(ns, self) ==
    LET node  == ns[self]
        bases == IF Len(node.bases) > 0
                 THEN <<"(">> \o join(<<", ">>, node.bases) \o <<")">>
                 ELSE <<>>
        super_code == StubNode_get_code(ns, self)
    IN  IF Len(node.children) = 0
        THEN << <<"class ">> \o node.name \o bases \o <<": ...">> >>
        ELSE << <<"class ">> \o node.name \o bases \o <<":">> >>
                \o [i \in DOMAIN super_code |-> <<INDENT>> \o super_code[i]]

\* node.get_code(), by the class of the node
get_code(ns, self) ==
    IF ns[self].cls = "VariableNode" THEN VariableNode_get_code(ns[self])
    ELSE IF ns[self].cls = "FunctionNode" THEN FunctionNode_get_code(ns[self])
    ELSE IF ns[self].cls = "ClassNode" THEN ClassNode_get_code(ns, self)
    ELSE StubNode_get_code(ns, self)

\* line.startswith(prefix) for a line of stub text and one of the pieces
\* "class ", "def " and " " (the first character of INDENT): a name holds
\* no space, so the line starts with the prefix when its first piece does.
startswith(line, prefix) ==
    /\ line # <<>>
    /\ IF prefix = " " THEN line[1] = INDENT ELSE line[1] = prefix

\* The lines the loop of generate_stub writes for stub_lines[k].
body_lines(stub_lines, k) ==
    LET prev_line == IF k > 1 THEN Some(stub_lines[k - 1]) ELSE None
        line      == stub_lines[k]
        next_line == IF k < Len(stub_lines) THEN Some(stub_lines[k + 1])
                     ELSE None
    IN  (IF /\ startswith(line, "class ")
            /\ prev_line # None
            /\ \/ ~startswith(prev_line[1], "class ")
               \/ next_line # None /\ startswith(next_line[1], " ")
         THEN << <<>> >> ELSE <<>>)
        \o (IF /\ startswith(line, "def ")
               /\ prev_line # None
               /\ \/ startswith(prev_line[1], " ")
                  \/ startswith(prev_line[1], "class ")
            THEN << <<>> >> ELSE <<>>)
        \o <<line>>

\* as_names of generate_stub: a later key of imported_namespaces replaces an
\* earlier one with the same alias.
RECURSIVE namespace_as_names(_)
namespace_as_names(d) ==
    IF d = <<>> THEN <<>>
    ELSE LET n    == d[Len(d)].key
             rest == namespace_as_names(SubSeq(d, 1, Len(d) - 1))
         IN  IF contains(n, AS_MARK) THEN DictSet(rest, split(n, AS_MARK)[1], n)
             ELSE rest

\* A plausible slip: the blank line is written without the test of `started`.
blank_always(started) == << <<>> >>

\* `if started: out.write("\n")`
blank_if(started) == IF started THEN << <<>> >> ELSE <<>>

\* generate_stub after analyze_types returned the report `types`.
write_stub(types, ns, imp_names, imp_namespaces, als) ==
    LET typing_part ==
            IF types.typing # None
            THEN generate_import_from(<<"t", "y", "p", "i", "n", "g">>, types.typing[1])
            ELSE <<>>
        started1 == types.typing # None
        used == SelectSeq(imp_names,
                    LAMBDA e : split(e.key, AS_MARK)[1] \in types.imported[1])
        imported_part ==
            IF types.imported # None
            THEN blank_if(started1)
                   \o concat([i \in DOMAIN used |->
                        generate_import_from(used[i].value, {used[i].key})])
            ELSE <<>>
        started2 == started1 \/ types.imported # None
        as_names == namespace_as_names(imp_namespaces)
        needed   == sorted(types.modules[1])
        modules_part ==
            IF types.modules # None
            THEN blank_if(started2)
                   \o [i \in DOMAIN needed |->
                        IF needed[i] \in DictKeys(as_names)
                        THEN <<"import ">>
                               \o split(DictGet(as_names, needed[i]), AS_MARK)[2]
                               \o <<" as ">>
                               \o split(DictGet(as_names, needed[i]), AS_MARK)[1]
                        ELSE <<"import ">> \o needed[i]]
            ELSE <<>>
        started3 == started2 \/ types.modules # None
        aliases_part ==
            IF Len(als) > 0
            THEN blank_if(started3)
                   \o [i \in DOMAIN als |->
                        als[i].key \o <<" = ">> \o als[i].value]
            ELSE <<>>
        started4 == started3 \/ Len(als) > 0
        stub_lines == get_code(ns, RootId)
    IN  typing_part \o imported_part \o modules_part \o aliases_part
          \o blank_if(started4)
          \o concat([k \in DOMAIN stub_lines |-> body_lines(stub_lines, k)])

\* generate_stub: the lines of the stub, or the exception of analyze_types.
generate_stub_result(ns, required, defined, imp_names, imp_namespaces, als) ==
    LET types == analyze_types(ns, required, defined, imp_names)
    IN  IF ~types.ok THEN types
        ELSE Returned(write_stub(types.value, ns, imp_names, imp_namespaces, als))


(***************************************************************************)
(* get_stub: StubGenerator(source, generic=generic), whose constructor     *)
(* collects the aliases and walks the tree, then generate_stub().  The     *)
(* walk visits one statement per step; the statements of the source are    *)
(* chosen as the walk goes and logged in `source`.  A visit_ClassDef or a  *)
(* get_function_node that reaches generic_visit stays on `frames` until    *)
(* the statements of its body are visited and the `leave` step runs the    *)
(* rest of the handler.  ast.parse is taken to succeed.                    *)
(***************************************************************************)

\* The number of statements of the sources of Spec.
MaxStmts == 2

\* self._parents[-1]
current_parent == _parents[Len(_parents)]

\* The history entry of the statement being visited.
visited(node) == Append(source, [node |-> node, scope |-> current_parent])

\* The walk is under way: ast.NodeVisitor calls the handler of the next
\* statement.
walking == pc = "walk"

\* The statements of `pool` that may come next in a source of n statements
\* at most.
Upto(pool, n) == IF Len(source) < n THEN DOMAIN pool ELSE {}

\* An exception leaves the constructor: get_stub raises it.
walk_raises(e) ==
    /\ pc' = "walk_raised"
    /\ exception' = e

\* StubGenerator.__init__ up to the walk, for a source whose lines that
\* match _RE_SIG_ALIAS are `matches`.
StubGenerator_init(matches) ==
    /\ pc = "init"
    /\ aliases' = get_aliases(matches)
    /\ LET r == collect_aliases_loop(aliases', Len(aliases'))
       IN  IF r.ok
           THEN /\ required_types' = required_types \cup r.value.required_types
                /\ defined_types' = defined_types \cup r.value.defined_types
                /\ pc' = "walk"
                /\ UNCHANGED exception
           ELSE /\ walk_raises(r)
                /\ UNCHANGED <<required_types, defined_types>>
    /\ UNCHANGED <<generic, nodes, _parents, imported_namespaces,
                   imported_names, frames, source, stub>>
    /\ UNCHANGED sigvars
    /\ UNCHANGED runvars

visit_Import(node) ==
    /\ walking
    /\ node.type = "Import"
    /\ LET module_name == strip(split(node.line, <<"i", "m", "p", "o", "r", "t">>)[1])
       IN  imported_namespaces' =
                import_loop(imported_namespaces, node.names, module_name)
    /\ source' = visited(node)
    /\ UNCHANGED <<generic, nodes, _parents, imported_names, defined_types,
                   required_types, aliases, frames, pc, exception, stub>>
    /\ UNCHANGED sigvars
    /\ UNCHANGED runvars

visit_ImportFrom(node) ==
    /\ walking
    /\ node.type = "ImportFrom"
    /\ LET module_name ==
            strip(split(split(node.line, <<"f", "r", "o", "m">>)[2], <<"i", "m", "p", "o", "r", "t">>)[1])
       IN  imported_names' =
                import_loop(imported_names, node.names, module_name)
    /\ source' = visited(node)
    /\ UNCHANGED <<generic, nodes, _parents, imported_namespaces,
                   defined_types, required_types, aliases, frames, pc,
                   exception, stub>>
    /\ UNCHANGED sigvars
    /\ UNCHANGED runvars

visit_Assign(node) ==
    /\ walking
    /\ node.type = "Assign"
    /\ LET r == visit_Assign_result(
                    [nodes |-> nodes, required_types |-> required_types,
                     exception |-> NoException],
                    node, current_parent, generic, Len(source) + 1)
       IN  /\ nodes' = r.nodes
           /\ required_types' = r.required_types
           /\ IF r.exception.ok THEN UNCHANGED <<pc, exception>>
              ELSE walk_raises(r.exception)
    /\ source' = visited(node)
    /\ UNCHANGED <<generic, _parents, imported_namespaces, imported_names,
                   defined_types, aliases, frames, stub>>
    /\ UNCHANGED sigvars
    /\ UNCHANGED runvars

\* get_function_node up to generic_visit, called by `handler`.
enter_function(node, handler) ==
    /\ walking
    /\ LET r == get_function_node(node, nodes[current_parent], generic)
       IN  IF r.outcome = "skip"
           THEN UNCHANGED <<nodes, _parents, required_types, frames, pc,
                            exception>>
           ELSE IF r.outcome = "raise"
           THEN /\ walk_raises(r.exception)
                /\ required_types' = required_types \cup r.requires
                /\ UNCHANGED <<nodes, _parents, frames>>
           ELSE /\ required_types' = required_types \cup r.requires
                /\ nodes' = add_child(nodes, current_parent,
                                MadeAt(r.stub_node, Len(source) + 1))
                /\ _parents' = Append(_parents, Len(nodes) + 1)
                /\ frames' = Append(frames, handler)
                /\ UNCHANGED <<pc, exception>>
    /\ source' = visited(node)
    /\ UNCHANGED <<generic, imported_namespaces, imported_names,
                   defined_types, aliases, stub>>
    /\ UNCHANGED sigvars
    /\ UNCHANGED runvars

visit_FunctionDef(node) ==
    /\ node.type = "FunctionDef"
    /\ enter_function(node, "visit_FunctionDef")

visit_AsyncFunctionDef(node) ==
    /\ node.type = "AsyncFunctionDef"
    /\ enter_function(node, "visit_AsyncFunctionDef")

\* visit_ClassDef up to generic_visit.
visit_ClassDef(node) ==
    /\ walking
    /\ node.type = "ClassDef"
    /\ defined_types' = defined_types \cup {node.name}
    /\ LET bases == bases_loop(node.bases)
           sig   == docstring_signature(node)
       IN  IF ~bases.ok
           THEN /\ walk_raises(bases)
                /\ UNCHANGED <<nodes, _parents, required_types, frames>>
           ELSE IF ~sig.ok
           THEN /\ walk_raises(sig)
                /\ required_types' = required_types \cup Range(bases.value)
                /\ UNCHANGED <<nodes, _parents, frames>>
           ELSE /\ required_types' = required_types \cup Range(bases.value)
                /\ nodes' = add_child(nodes, current_parent,
                                MadeAt(ClassNode(node.name, bases.value, sig.value),
                                       Len(source) + 1))
                /\ _parents' = Append(_parents, Len(nodes) + 1)
                /\ frames' = Append(frames, "visit_ClassDef")
                /\ UNCHANGED <<pc, exception>>
    /\ source' = visited(node)
    /\ UNCHANGED <<generic, imported_namespaces, imported_names, aliases,
                   stub>>
    /\ UNCHANGED sigvars
    /\ UNCHANGED runvars

\* generic_visit returns to the innermost handler, which runs to its end:
\* `del self._parents[-1]`, and for a function `node._async = ...` in
\* visit_FunctionDef or visit_AsyncFunctionDef.
leave ==
    /\ pc = "walk"
    /\ frames # <<>>
    /\ LET handler == frames[Len(frames)]
       IN  nodes' = IF handler = "visit_ClassDef" THEN nodes
                    ELSE [nodes EXCEPT ![current_parent]._async =
                            (handler = "visit_AsyncFunctionDef")]
    /\ _parents' = SubSeq(_parents, 1, Len(_parents) - 1)
    /\ frames' = SubSeq(frames, 1, Len(frames) - 1)
    /\ UNCHANGED <<generic, imported_namespaces, imported_names,
                   defined_types, required_types, aliases, source, pc,
                   exception, stub>>
    /\ UNCHANGED sigvars
    /\ UNCHANGED runvars

\* The walk is over: generator.generate_stub()
generate_stub ==
    /\ pc = "walk"
    /\ frames = <<>>
    /\ LET r == generate_stub_result(nodes, required_types, defined_types,
                    imported_names, imported_namespaces, aliases)
       IN  IF r.ok
           THEN /\ stub' = r.value
                /\ pc' = "returned"
                /\ UNCHANGED exception
           ELSE /\ exception' = r
                /\ pc' = "generate_raised"
                /\ UNCHANGED stub
    /\ UNCHANGED <<generic, nodes, _parents, imported_namespaces,
                   imported_names, defined_types, required_types, aliases,
                   frames, source>>
    /\ UNCHANGED sigvars
    /\ UNCHANGED runvars

\* A generator before its constructor runs.
Fresh ==
    /\ nodes = <<StubNode>>
    /\ _parents = <<RootId>>
    /\ imported_namespaces = <<>>
    /\ imported_names = <<>>
    /\ defined_types = {}
    /\ required_types = {}
    /\ aliases = <<>>
    /\ frames = <<>>
    /\ source = <<>>
    /\ exception = NoException
    /\ stub = NoStub

(***************************************************************************)
(* The sources of the walker's specification.                              *)
(***************************************************************************)


Name(id) == [type |-> "Name", id |-> id]
Attribute(value, attr) == [type |-> "Attribute", value |-> value, attr |-> attr]
Call(func) == [type |-> "Call", func |-> func]
arg(name, has_default) == [arg |-> name, has_default |-> has_default]
arguments(args, vararg, kwonlyargs, kwarg) ==
    [args |-> args, vararg |-> vararg, kwonlyargs |-> kwonlyargs,
     kwarg |-> kwarg]
FunctionDef(name, decorator_list, args, docstring) ==
    [type |-> "FunctionDef", name |-> name, decorator_list |-> decorator_list,
     args |-> args, docstring |-> docstring]
AsyncFunctionDef(name, decorator_list, args, docstring) ==
    [type |-> "AsyncFunctionDef", name |-> name,
     decorator_list |-> decorator_list, args |-> args, docstring |-> docstring]
ClassDef(name, bases, docstring) ==
    [type |-> "ClassDef", name |-> name, bases |-> bases,
     docstring |-> docstring]
Assign(targets, sig_comments) ==
    [type |-> "Assign", targets |-> targets, sig_comments |-> sig_comments]
alias(name, asname) == [name |-> name, asname |-> asname]
Import(line, names) == [type |-> "Import", line |-> line, names |-> names]
ImportFrom(line, names) ==
    [type |-> "ImportFrom", line |-> line, names |-> names]

Statements ==
    << \* import a
       Import(<<"i", "m", "p", "o", "r", "t", " ", "a">>, <<alias(<<"a">>, None)>>),
       \* from m import Foo, Baz as Bar
       ImportFrom(<<"f", "r", "o", "m", " ", "m", " ", "i", "m", "p", "o", "r", "t", " ", "F", "o", "o", ",", " ", "B", "a", "z", " ", "a", "s", " ", "B", "a", "r">>,
                  <<alias(<<"F", "o", "o">>, None), alias(<<"B", "a", "z">>, Some(<<"B", "a", "r">>))>>),
       \* n = 1  # sig: int
       Assign(<<Name("n")>>, <<<<" ", "i", "n", "t">>>>),
       \* n = 1
       Assign(<<Name("n")>>, <<>>),
       \* self.x = 1  # sig: Foo
       Assign(<<Attribute(Name("self"), "x")>>, <<<<" ", "F", "o", "o">>>>),
       \* class C:
       ClassDef(<<"C">>, <<>>, None),
       \* class C(Foo): """:sig: (int) -> None"""
       ClassDef(<<"C">>, <<Name(<<"F", "o", "o">>)>>, Some(<<<<"(", "i", "n", "t", ")", " ", "-", ">", " ", "N", "o", "n", "e">>>>)),
       \* def f(a): pass
       FunctionDef("f", <<>>,
                   arguments(<<arg("a", FALSE)>>, None, <<>>, None), None),
       \* def g(a): """:sig: (Foo) -> Bar"""
       FunctionDef("g", <<>>,
                   arguments(<<arg("a", FALSE)>>, None, <<>>, None),
                   Some(<<<<"(", "F", "o", "o", ")", " ", "-", ">", " ", "B", "a", "r">>>>)),
       \* def g(a): """:sig: (a.B) -> List[str]"""
       FunctionDef("g", <<>>,
                   arguments(<<arg("a", FALSE)>>, None, <<>>, None),
                   Some(<<<<"(", "a", ".", "B", ")", " ", "-", ">", " ", "L", "i", "s", "t", "[", "s", "t", "r", "]">>>>)),
       \* def __init__(self, a): pass
       FunctionDef("__init__", <<>>,
                   arguments(<<arg("self", FALSE), arg("a", FALSE)>>,
                             None, <<>>, None), None),
       \* @a.b()
       \* def f(): pass
       FunctionDef("f", <<Call(Attribute(Name("a"), "b"))>>,
                   arguments(<<>>, None, <<>>, None), None),
       \* def f(a): """:sig: int"""
       FunctionDef("f", <<>>,
                   arguments(<<arg("a", FALSE)>>, None, <<>>, None),
                   Some(<<<<"i", "n", "t">>>>)),
       \* def f(a): """:sig: () -> None"""
       FunctionDef("f", <<>>,
                   arguments(<<arg("a", FALSE)>>, None, <<>>, None),
                   Some(<<<<"(", ")", " ", "-", ">", " ", "N", "o", "n", "e">>>>)),
       \* def f(): """:sig: () -> None"""
       FunctionDef("f", <<>>, arguments(<<>>, None, <<>>, None),
                   Some(<<<<"(", ")", " ", "-", ">", " ", "N", "o", "n", "e">>>>)),
       \* def f(): """:sig: (int) -> None"""
       FunctionDef("f", <<>>, arguments(<<>>, None, <<>>, None),
                   Some(<<<<"(", "i", "n", "t", ")", " ", "-", ">", " ", "N", "o", "n", "e">>>>)),
       \* def m(self, *args, **kw): """:sig: () -> str"""
       FunctionDef("m", <<>>,
                   arguments(<<arg("self", FALSE)>>, Some("args"), <<>>,
                             Some("kw")),
                   Some(<<<<"(", ")", " ", "-", ">", " ", "s", "t", "r">>>>)),
       \* async def f(): """:sig: () -> None"""
       AsyncFunctionDef("f", <<>>, arguments(<<>>, None, <<>>, None),
                        Some(<<<<"(", ")", " ", "-", ">", " ", "N", "o", "n", "e">>>>)) >>

\* The sigalias lines of the source: none, or "# sigalias: Bar = List[int]".
AliasLines ==
    << <<>>,
       <<[alias |-> <<"B", "a", "r">>, signature |-> <<"L", "i", "s", "t", "[", "i", "n", "t", "]">>]>> >>

Init ==
    /\ generic \in BOOLEAN
    /\ pc = "init"
    /\ Fresh
    /\ signature = <<>>
    /\ parsed = NotRun
    /\ spc = "idle"
    /\ NoRun

Next ==
    \/ \E i \in DOMAIN AliasLines : StubGenerator_init(AliasLines[i])
    \/ \E i \in Upto(Statements, MaxStmts) : visit_Import(Statements[i])
    \/ \E i \in Upto(Statements, MaxStmts) : visit_ImportFrom(Statements[i])
    \/ \E i \in Upto(Statements, MaxStmts) : visit_Assign(Statements[i])
    \/ \E i \in Upto(Statements, MaxStmts) : visit_FunctionDef(Statements[i])
    \/ \E i \in Upto(Statements, MaxStmts) : visit_AsyncFunctionDef(Statements[i])
    \/ \E i \in Upto(Statements, MaxStmts) : visit_ClassDef(Statements[i])
    \/ leave
    \/ generate_stub

Spec == Init /\ [][Next]_vars


(***************************************************************************)
(* The specification of the parser: a signature from a bounded set of      *)
(* texts, and the call of parse_signature on it.                           *)
(***************************************************************************)

MaxDeclLen == 5

RECURSIVE Texts(_, _)
\* All texts over the characters `chars` of length at most n.
Texts(chars, n) ==
    IF n = 0 THEN {<<>>}
    ELSE LET shorter == Texts(chars, n - 1)
         IN  shorter \cup {Append(t, c) : t \in shorter, c \in chars}

ArrowForms == {<<>>, <<"-", ">">>, <<" ", "-", ">">>, <<"-", ">", " ">>,
               <<" ", "-", ">", " ">>, <<" ", "\n", "-", ">", " ", " ">>}

Segments == {<<>>, <<"(", ")">>, <<"(", "a", ")">>, <<"a">>, <<"(", "a">>,
             <<"a", ")">>, <<" ">>}

\* Texts with up to two arrows, written with and without whitespace.
ArrowInputs ==
    {s0 \o a1 \o s1 \o a2 \o s2 :
        s0 \in Segments, a1 \in ArrowForms, s1 \in Segments,
        a2 \in ArrowForms, s2 \in Segments}

DeclChars == {"a", ",", "[", "]", " ", "."}

ReturnTypes == {<<"a">>, <<"b", "[", "a", "]">>, <<"b">>}

\* Callable signatures around every parameter declaration of bounded length.
DeclInputs ==
    {<<"(">> \o d \o <<")", " ", "-", ">", " ">> \o r :
        d \in Texts(DeclChars, MaxDeclLen), r \in ReturnTypes}

\* Bare types and return types with brackets, dots and arrows in them.
TypeInputs ==
    LET ts == Texts({"a", "[", "]", ".", " "}, MaxDeclLen)
    IN  ts \cup {<<"(", ")", " ", "-", ">", " ">> \o t : t \in ts}

SigInputs == ArrowInputs \cup DeclInputs \cup TypeInputs

SigInit ==
    /\ signature \in SigInputs
    /\ parsed = NotRun
    /\ spc = "input"
    /\ generic = FALSE
    /\ pc = "idle"
    /\ Fresh
    /\ NoRun

ParseSignature ==
    /\ spc = "input"
    /\ parsed' = parse_signature(signature)
    /\ spc' = "parsed"
    /\ UNCHANGED signature
    /\ UNCHANGED walkvars
    /\ UNCHANGED runvars

SigNext == ParseSignature

SpecSig == SigInit /\ [][SigNext]_vars

(***************************************************************************)
(* Claims about parse_signature, checked under SpecSig.  Their vocabulary  *)
(* is defined on the text of the signature, not by the parser's operators. *)
(***************************************************************************)

\* An arrow token "->" starts at position p.
ArrowAt(s, p) == p + 1 <= Len(s) /\ s[p] = "-" /\ s[p + 1] = ">"

ArrowPositions(s) == {p \in 1..Len(s) : ArrowAt(s, p)}

\* The arrow at p has whitespace immediately before and after it.
Delimited(s, p) ==
    /\ ArrowAt(s, p)
    /\ p > 1 /\ IsSpace(s[p - 1])
    /\ p + 2 <= Len(s) /\ IsSpace(s[p + 2])

\* Two delimited arrows that do not share their whitespace.
TwoDelimitedArrows(s) ==
    \E p, q \in ArrowPositions(s) :
        /\ p < q
        /\ Delimited(s, p) /\ Delimited(s, q)
        /\ \E k \in (p + 2)..(q - 1) : ~IsSpace(s[k])

\* The text has one arrow, and the arrow is delimited by whitespace.
OneArrow(s) ==
    /\ Cardinality(ArrowPositions(s)) = 1
    /\ \A p \in ArrowPositions(s) : Delimited(s, p)

TheArrow(s) == CHOOSE p \in ArrowPositions(s) : TRUE

\* The trimmed text to the left and to the right of the arrow.
LhsOf(s) == strip(SubSeq(s, 1, TheArrow(s) - 1))
RhsOf(s) == strip(From(s, TheArrow(s) + 2))

Enclosed(l) == Len(l) >= 2 /\ l[1] = "(" /\ l[Len(l)] = ")"

\* The trimmed text between the parentheses of an enclosed left-hand side.
DeclOf(s) == strip(SubSeq(LhsOf(s), 2, Len(LhsOf(s)) - 1))

\* r, the outcome of a call that was made, is a ValueError.
RaisedValueError(r) == ~r.ok /\ r.exc = "ValueError"

\* C3: a signature with exactly one arrow whose trimmed left-hand side is
\* not enclosed in "(" and ")" (the empty left-hand side included) makes
\* parse_signature raise ValueError.
C3_UnenclosedLhsRaisesValueError ==
    (spc = "parsed" /\ OneArrow(signature) /\ ~Enclosed(LhsOf(signature)))
        => RaisedValueError(parsed)

\* C4 as claimed: more than one occurrence of "->", whatever the whitespace
\* around them, makes parse_signature raise ValueError.
C4_AnyTwoArrowsRaise ==
    (spc = "parsed" /\ Cardinality(ArrowPositions(signature)) > 1)
        => RaisedValueError(parsed)

\* C4 as amended: two arrows that each have whitespace immediately before
\* and after them, with a non-whitespace character between the two, make
\* parse_signature raise the multiple-arrows ValueError; no result is
\* returned.
C4_TwoDelimitedArrowsRaise ==
    (spc = "parsed" /\ TwoDelimitedArrows(signature))
        => parsed = Raised("ValueError", <<"multiple arrows in signature">>)

C4_Witness ==
    /\ spc = "parsed"
    /\ TwoDelimitedArrows(signature)
    /\ \E p \in ArrowPositions(signature) : signature[p - 1] = "\n"
    /\ RaisedValueError(parsed)

\* Bracket depth before position i: the "[" minus the "]" seen so far.
DepthBefore(d, i) ==
    Cardinality({j \in 1..(i - 1) : d[j] = "["})
        - Cardinality({j \in 1..(i - 1) : d[j] = "]"})

SplitPoints(d) == {i \in 1..Len(d) : d[i] = "," /\ DepthBefore(d, i) = 0}

\* The k-th split point in text order; 0 before the first, Len(d) + 1 after
\* the last.
SplitPoint(d, k) ==
    IF k = 0 THEN 0
    ELSE IF k > Cardinality(SplitPoints(d)) THEN Len(d) + 1
         ELSE CHOOSE i \in SplitPoints(d) :
                Cardinality({j \in SplitPoints(d) : j < i}) = k - 1

Fragments(d) ==
    IF d = <<>> THEN <<>>
    ELSE [k \in 1..(Cardinality(SplitPoints(d)) + 1) |->
            strip(SubSeq(d, SplitPoint(d, k - 1) + 1, SplitPoint(d, k) - 1))]

\* C5: the parameter types of a parenthesised list are the trimmed texts
\* between the commas at bracket depth 0, in order, one more than there are
\* such commas, and none for the empty list.
C5_SplitAtDepthZeroCommas ==
    (spc = "parsed" /\ OneArrow(signature) /\ Enclosed(LhsOf(signature)))
        => /\ parsed.ok
           /\ parsed.value.param_types = Some(Fragments(DeclOf(signature)))

C5_Witness ==
    /\ spc = "parsed" /\ OneArrow(signature) /\ Enclosed(LhsOf(signature))
    /\ parsed.ok
    /\ Len(parsed.value.param_types[1]) = 2
    /\ \A k \in 1..2 : parsed.value.param_types[1][k] # <<>>
    /\ \A i \in 1..Len(DeclOf(signature)) : DepthBefore(DeclOf(signature), i) >= 0
    /\ DepthBefore(DeclOf(signature), Len(DeclOf(signature)) + 1) = 0
    /\ \E i \in 1..Len(DeclOf(signature)) :
            DeclOf(signature)[i] = "," /\ DepthBefore(DeclOf(signature), i) > 0

\* s[i..j] is one or more runs of word characters joined by single dots.
IsDottedName(s, i, j) ==
    /\ i <= j
    /\ IsWord(s[i]) /\ IsWord(s[j])
    /\ \A k \in i..j :
            \/ IsWord(s[k])
            \/ s[k] = "." /\ IsWord(s[k - 1]) /\ IsWord(s[k + 1])

\* The dotted names of s that no longer dotted name of s contains.
MaximalNames(s) ==
    {SubSeq(s, ij[1], ij[2]) : ij \in
        {x \in (1..Len(s)) \X (1..Len(s)) :
            /\ IsDottedName(s, x[1], x[2])
            /\ \A y \in (1..x[1]) \X (x[2]..Len(s)) :
                    IsDottedName(s, y[1], y[2]) => y = x}}

\* C6: the required set is the set of the maximal dot-separated runs of word
\* characters of the whole signature.
C6_RequiredAreMaximalNames ==
    (spc = "parsed" /\ parsed.ok)
        => parsed.value.requires = MaximalNames(signature)

C6_Witness ==
    /\ spc = "parsed" /\ parsed.ok
    /\ parsed.value.param_types # None
    /\ \E i \in 1..Len(signature) : signature[i] = "["
    /\ parsed.value.requires = {<<"a", ".", "a">>, <<"b">>}

\* The bracket depth of s never goes below zero and ends at zero.
Balanced(s) ==
    /\ DepthBefore(s, Len(s) + 1) = 0
    /\ \A i \in 1..Len(s) : DepthBefore(s, i + 1) >= 0

\* C7: a signature is accepted as a callable signature only if its square
\* brackets are matched.
C7_UnmatchedBracketIsAnError ==
    (spc = "parsed" /\ parsed.ok /\ parsed.value.param_types # None)
        => Balanced(signature)

Join(parts, sep) ==
    LET RECURSIVE J(_)
        J(k) == IF k > Len(parts) THEN <<>>
                ELSE IF k = Len(parts) THEN parts[k]
                     ELSE parts[k] \o sep \o J(k + 1)
    IN  J(1)

\* "(" + ", ".join(param_types) + ") -> " + return_type
Rebuild(v) ==
    <<"(">> \o Join(v.param_types[1], <<",", " ">>)
        \o <<")", " ", "-", ">", " ">> \o v.return_type

\* A callable signature: one arrow, the left-hand side enclosed.
WellFormed(s) == OneArrow(s) /\ Enclosed(LhsOf(s))

\* C8: for a well-formed callable signature the text rebuilt from the parse
\* parses to the same parameter types, return type and required set, and
\* rebuilding that parse gives the same text again.
C8_RoundTrip ==
    (spc = "parsed" /\ WellFormed(signature))
        => /\ parsed.ok
           /\ LET again == parse_signature(Rebuild(parsed.value))
              IN  /\ again.ok
                  /\ again.value = parsed.value
                  /\ Rebuild(again.value) = Rebuild(parsed.value)

C8_Witness ==
    /\ spc = "parsed" /\ WellFormed(signature)
    /\ parsed.ok
    /\ Len(parsed.value.param_types[1]) = 2
    /\ \A k \in 1..2 : parsed.value.param_types[1][k] # <<>>
    /\ Rebuild(parsed.value) # signature

(***************************************************************************)
(* Claims about get_stub, checked under Spec.  A statement of the source   *)
(* and the nodes made for it are related by the history: source[k] is the  *)
(* k-th statement visited, and a node made for it has lineno k.            *)
(***************************************************************************)

IsCallable(node) == node.type \in {"FunctionDef", "AsyncFunctionDef"}

\* The nodes made for the k-th statement.
NodesAt(k) == {i \in DOMAIN nodes : i # RootId /\ nodes[i].lineno = k}

\* The visit of the k-th statement ran to its end.
Completed(k) == k < Len(source) \/ pc # "walk_raised"

\* The signature fields of the docstring of a definition.
SigFields(node) == IF node.docstring = None THEN <<>> ELSE node.docstring[1]

\* The definition source[k] has a governing signature: its own, or for an
\* __init__ in the body of a class the signature of that class.
Borrows(e) ==
    /\ e.node.name = "__init__"
    /\ nodes[e.scope].cls = "ClassNode"
    /\ nodes[e.scope].signature # None

Governed(e) == SigFields(e.node) # <<>> \/ Borrows(e)

GoverningText(e) ==
    IF SigFields(e.node) # <<>> THEN SigFields(e.node)[1]
    ELSE nodes[e.scope].signature[1]

\* The local names of the from-imports of the source.
LocalNames ==
    {LET parts == split(imported_names[i].key, AS_MARK)
     IN  parts[1] : i \in DOMAIN imported_names}

\* The required types that no step of the analysis accounts for: not
\* builtin, not defined in the unit, not qualified, not the local name of a
\* from-import and not a name of the typing module.
Unresolved ==
    {t \in required_types :
        /\ t \notin _BUILTIN_TYPES
        /\ t \notin defined_types
        /\ "." \notin Range(t)
        /\ t \notin LocalNames
        /\ ~typing_has(t)}

UnresolvedError(names) ==
    /\ pc = "generate_raised"
    /\ exception.exc = "ValueError"
    /\ Len(exception.msg) = 2
    /\ exception.msg[1] = "unresolved types: "
    /\ exception.msg[2] = names

\* C1: when generate_stub has run on a unit that leaves required types
\* unresolved, it has raised the error that names all of them, and get_stub
\* has returned no stub text.
C1_UnresolvedTypesFailNamingAll ==
    (pc \in {"returned", "generate_raised"} /\ Unresolved # {})
        => /\ UnresolvedError(Unresolved)
           /\ stub = NoStub

C1_Witness ==
    /\ UnresolvedError(Unresolved)
    /\ Cardinality(Unresolved) >= 2
    /\ (required_types \ Unresolved) \ _BUILTIN_TYPES # {}
    /\ stub = NoStub

\* The parameter names of a definition: positional, *args, **kwargs and
\* keyword-only.
NameCount(node) ==
    Len(node.args.args) + Len(node.args.kwonlyargs)
        + (IF node.args.vararg # None THEN 1 ELSE 0)
        + (IF node.args.kwarg # None THEN 1 ELSE 0)

HasReceiver(node) ==
    /\ node.args.args # <<>>
    /\ \/ node.args.args[1].arg = "self"
       \/ /\ node.args.args[1].arg = "cls"
          /\ \E i \in DOMAIN node.decorator_list :
                /\ node.decorator_list[i].type = "Name"
                /\ node.decorator_list[i].id = "classmethod"

\* The type entries of a definition under the signature text sig: the types
\* left of the arrow (none when there is no arrow), the empty slot of the
\* receiver and those of *args and **kwargs.
TypeCount(node, sig) ==
    (IF OneArrow(sig) /\ Enclosed(LhsOf(sig))
     THEN Len(Fragments(DeclOf(sig))) ELSE 0)
        + (IF HasReceiver(node) THEN 1 ELSE 0)
        + (IF node.args.vararg # None THEN 1 ELSE 0)
        + (IF node.args.kwarg # None THEN 1 ELSE 0)

\* The signature text is a type, or a parenthesised list, one arrow and a
\* type.
Parses(sig) ==
    \/ ArrowPositions(sig) = {}
    \/ OneArrow(sig) /\ Enclosed(LhsOf(sig))

ArityError(name) ==
    /\ pc = "walk_raised"
    /\ exception.exc = "ValueError"
    /\ Len(exception.msg) = 2
    /\ exception.msg[1] = "Parameter names and types don't match: "
    /\ exception.msg[2] = name

\* C2: the visit of a callable that has a governing signature raises the
\* error that names the callable exactly when the number of type entries
\* differs from the number of parameter names.
C2_ArityMismatchIffErrorNamingCallable ==
    source # <<>> =>
        LET e == source[Len(source)]
        IN  (IsCallable(e.node) /\ Governed(e) /\ Parses(GoverningText(e)))
                => ((TypeCount(e.node, GoverningText(e)) # NameCount(e.node))
                        <=> ArityError(e.node.name))

\* The k-th statement is a callable without a signature of its own that
\* borrows none.
Unsigned(k) == IsCallable(source[k].node) /\ ~Governed(source[k])

\* C9: in non-permissive mode a callable without a governing signature is
\* skipped: its visit ends without an exception and makes no node, so that
\* no statement is visited in its body; a unit that holds only such
\* callables requires no type, and get_stub returns the empty text for it.
C9_UnsignedCallableIsSkipped ==
    ~generic =>
        /\ \A k \in DOMAIN source : Unsigned(k) =>
                /\ Completed(k)
                /\ NodesAt(k) = {}
        /\ (aliases = <<>> /\ \A k \in DOMAIN source : Unsigned(k)) =>
                /\ Len(nodes) = 1
                /\ required_types = {}
                /\ pc \notin {"walk_raised", "generate_raised"}
                /\ pc = "returned" => stub = <<>>

\* The return type a signature text declares.
DeclaredReturn(sig) ==
    IF ArrowPositions(sig) = {} THEN strip(sig) ELSE RhsOf(sig)

\* The type an assignment declares in its signature comment.
DeclaredType(node) == strip(node.sig_comments[1])

\* The targets of an assignment for which visit_Assign makes a variable:
\* names, and attributes of self inside a definition that has an owner.
Supported(e) ==
    \A i \in DOMAIN e.node.targets :
        \/ e.node.targets[i].type = "Name"
        \/ /\ e.node.targets[i].type = "Attribute"
           /\ e.node.targets[i].value.type = "Name"
           /\ e.node.targets[i].value.id = "self"
           /\ e.scope # RootId

\* C10: in permissive mode every assignment and every callable whose visit
\* ran to its end has a node; without a signature the node has the type Any
\* (for the variable, the return value and every parameter but the receiver,
\* *args and **kwargs) and Any is required; with a signature it has the
\* types the signature declares.
C10_PermissiveModeEntries ==
    generic =>
        \A k \in DOMAIN source :
            LET e == source[k]
            IN  Completed(k) =>
                /\ (e.node.type = "Assign" /\ Supported(e)
                        /\ Len(e.node.sig_comments) <= 1) =>
                      /\ NodesAt(k) # {}
                      /\ \A i \in NodesAt(k) :
                            /\ nodes[i].cls = "VariableNode"
                            /\ nodes[i].type_ =
                                    IF e.node.sig_comments = <<>> THEN T_Any
                                    ELSE DeclaredType(e.node)
                      /\ e.node.sig_comments = <<>> => T_Any \in required_types
                /\ IsCallable(e.node) =>
                      /\ NodesAt(k) # {}
                      /\ \A i \in NodesAt(k) :
                            /\ nodes[i].cls = "FunctionNode"
                            /\ IF Governed(e)
                               THEN nodes[i].rtype =
                                        DeclaredReturn(GoverningText(e))
                               ELSE /\ nodes[i].rtype = T_Any
                                    /\ T_Any \in required_types
                                    /\ \A j \in DOMAIN nodes[i].parameters :
                                         nodes[i].parameters[j].type_
                                            \in {T_Any, <<>>}

(***************************************************************************)
(* The imports and the aliases of a stub: get_stub on sources made of      *)
(* imports and of assignments with a signature comment.                    *)
(***************************************************************************)

\* The number of statements of the sources of SpecHeader.
MaxHeaderStmts == 3

HeaderStatements ==
    << \* import a
       Import(<<"i", "m", "p", "o", "r", "t", " ", "a">>, <<alias(<<"a">>, None)>>),
       \* import x.y as z
       Import(<<"i", "m", "p", "o", "r", "t", " ", "x", ".", "y", " ", "a", "s", " ", "z">>, <<alias(<<"x", ".", "y">>, Some(<<"z">>))>>),
       \* from m import Foo, Baz as Bar
       ImportFrom(<<"f", "r", "o", "m", " ", "m", " ", "i", "m", "p", "o", "r", "t", " ", "F", "o", "o", ",", " ", "B", "a", "z", " ", "a", "s", " ", "B", "a", "r">>,
                  <<alias(<<"F", "o", "o">>, None), alias(<<"B", "a", "z">>, Some(<<"B", "a", "r">>))>>),
       \* from k import Abc
       ImportFrom(<<"f", "r", "o", "m", " ", "k", " ", "i", "m", "p", "o", "r", "t", " ", "A", "b", "c">>, <<alias(<<"A", "b", "c">>, None)>>),
       \* n = 1  # sig: Dict[Bar, a.B]
       Assign(<<Name("n")>>, <<<<" ", "D", "i", "c", "t", "[", "B", "a", "r", ",", " ", "a", ".", "B", "]">>>>),
       \* v = 1  # sig: Dict[z.T, a.B]
       Assign(<<Name("v")>>, <<<<" ", "D", "i", "c", "t", "[", "z", ".", "T", ",", " ", "a", ".", "B", "]">>>>),
       \* w = 1  # sig: Dict[Foo.Inner, b.c.D]
       Assign(<<Name("w")>>, <<<<" ", "D", "i", "c", "t", "[", "F", "o", "o", ".", "I", "n", "n", "e", "r", ",", " ", "b", ".", "c", ".", "D", "]">>>>),
       \* u = 1  # sig: Dict[Foo, Abc]
       Assign(<<Name("u")>>, <<<<" ", "D", "i", "c", "t", "[", "F", "o", "o", ",", " ", "A", "b", "c", "]">>>>),
       \* a = 1  # sig: Dict[Bar.X, Dict.y]
       Assign(<<Name("a")>>, <<<<" ", "D", "i", "c", "t", "[", "B", "a", "r", ".", "X", ",", " ", "D", "i", "c", "t", ".", "y", "]">>>>),
       \* from importlib import a
       ImportFrom(<<"f", "r", "o", "m", " ", "i", "m", "p", "o", "r", "t", "l", "i", "b", " ", "i", "m", "p", "o", "r", "t", " ", "a">>, <<alias(<<"a">>, None)>>) >>

\* The sigalias lines of the source: none, "# sigalias: Bar = List[int]", or
\* "# sigalias: Pair = Dict[str,int]" and "# sigalias: Ids = List[int]".
HeaderAliasLines ==
    << <<>>,
       <<[alias |-> <<"B", "a", "r">>, signature |-> <<"L", "i", "s", "t", "[", "i", "n", "t", "]">>]>>,
       <<[alias |-> <<"P", "a", "i", "r">>, signature |-> <<"D", "i", "c", "t", "[", "s", "t", "r", ",", "i", "n", "t", "]">>],
         [alias |-> <<"I", "d", "s">>, signature |-> <<"L", "i", "s", "t", "[", "i", "n", "t", "]">>]>> >>

HeaderNext ==
    \/ \E i \in DOMAIN HeaderAliasLines : StubGenerator_init(HeaderAliasLines[i])
    \/ \E i \in Upto(HeaderStatements, MaxHeaderStmts) :
            visit_Import(HeaderStatements[i])
    \/ \E i \in Upto(HeaderStatements, MaxHeaderStmts) :
            visit_ImportFrom(HeaderStatements[i])
    \/ \E i \in Upto(HeaderStatements, MaxHeaderStmts) :
            visit_Assign(HeaderStatements[i])
    \/ generate_stub

SpecHeader == Init /\ [][HeaderNext]_vars

(***************************************************************************)
(* Claims about the imports of the stub, checked under SpecHeader.         *)
(***************************************************************************)

\* The segments of a dotted name.
DotSegments(name) == split(name, <<".">>)

\* The name with its final segment stripped.
RECURSIVE Dotted(_)
Dotted(segments) ==
    IF Len(segments) = 1 THEN segments[1]
    ELSE segments[1] \o <<".">> \o Dotted(Tail(segments))

NamespaceOf(name) ==
    Dotted(SubSeq(DotSegments(name), 1, Len(DotSegments(name)) - 1))

\* The required names that are neither builtin nor defined in the unit:
\* the qualified ones, and the plain ones.
StillRequired == (required_types \ _BUILTIN_TYPES) \ defined_types
RequiredQualified == {t \in StillRequired : "." \in Range(t)}
RequiredPlain == {t \in StillRequired : "." \notin Range(t)}

\* The plain imports and the from-imports of the source, one entry for each
\* imported name, in the order of the source.
RECURSIVE ImportEntries(_, _)
ImportEntries(k, type) ==
    IF k = 0 THEN <<>>
    ELSE ImportEntries(k - 1, type)
            \o (IF source[k].node.type = type THEN source[k].node.names
                ELSE <<>>)

PlainImports == ImportEntries(Len(source), "Import")
FromImports == ImportEntries(Len(source), "ImportFrom")

LocalName(al) == IF al.asname # None THEN al.asname[1] ELSE al.name

\* The originals that the source imports under the alias ns.
ImportedAs(ns) ==
    {PlainImports[i].name : i \in
        {j \in DOMAIN PlainImports : PlainImports[j].asname = Some(ns)}}

\* The number of lines of the stub that are the line l.
Count(l) == Cardinality({i \in DOMAIN stub : stub[i] = l})

\* The lines of the stub that import a namespace.
NamespaceLines == {i \in DOMAIN stub : stub[i] # <<>> /\ stub[i][1] = "import "}

\* The namespaces of the required qualified names that no from-import
\* provides.
RequiredNamespaces ==
    {NamespaceOf(q) : q \in RequiredQualified} \ LocalNames

\* C11: in a stub that get_stub returns, every namespace of a required
\* qualified name (not builtin, not defined in the unit) that is not a
\* from-imported name has exactly one import line: `import <original> as
\* <namespace>` when the source imports an original under that name,
\* `import <namespace>` otherwise, whether or not the source imports it.
C11_OneNamespaceImportForEachQualifiedName ==
    pc = "returned" =>
        \A ns \in RequiredNamespaces :
            IF ImportedAs(ns) # {}
            THEN /\ \E o \in ImportedAs(ns) :
                        Count(<<"import ">> \o o \o <<" as ">> \o ns) = 1
                 /\ Count(<<"import ">> \o ns) = 0
            ELSE /\ Count(<<"import ">> \o ns) = 1
                 /\ \A i \in NamespaceLines :
                        ~(\E k \in 1..Len(stub[i]) :
                            /\ stub[i][k] = " as "
                            /\ SubSeq(stub[i], k + 1, Len(stub[i])) = ns)

C11_Witness ==
    /\ pc = "returned"
    /\ {<<"z">>, <<"a">>} \subseteq RequiredNamespaces
    /\ Count(<<"import ">> \o <<"x", ".", "y">> \o <<" as ">> \o <<"z">>) = 1
    /\ Count(<<"import ">> \o <<"a">>) = 1
    /\ \E i \in DOMAIN PlainImports : PlainImports[i].name = <<"a">>

\* The value of a key of the report, the empty set when the key is absent.
ReportSet(field) == IF field = None THEN {} ELSE field[1]

\* The report of analyze_types on the state of the generator.
Report ==
    analyze_types(nodes, required_types, defined_types, imported_names).value

\* The clause of a from-import line for one imported name.
ImportClause(al) ==
    <<" import ">> \o al.name
        \o (IF al.asname # None THEN <<" as ">> \o al.asname[1] ELSE <<>>)

EndsWith(line, tail) ==
    /\ Len(line) >= Len(tail)
    /\ SubSeq(line, Len(line) - Len(tail) + 1, Len(line)) = tail

\* The line is a from-import of the name al.
IsFromImportOf(line, al) ==
    /\ line # <<>>
    /\ line[1] = "from "
    /\ EndsWith(line, ImportClause(al))

\* The from-imported names that the unit refers to: as a plain type that is
\* still required, or as the namespace of a required qualified name.
Referenced ==
    LocalNames \cap (RequiredPlain
                        \cup {NamespaceOf(q) : q \in RequiredQualified})

\* C12: when get_stub returns, the `imported` set of the report is the set
\* of from-imported local names that are a still-required plain name or the
\* namespace of a required qualified name, and the stub holds a from-import
\* line for a name of the source exactly when its local name is in that set.
C12_ImportedAreTheReferencedFromImports ==
    pc = "returned" =>
        /\ ReportSet(Report.imported) = Referenced
        /\ \A i \in DOMAIN FromImports :
                (\E l \in DOMAIN stub : IsFromImportOf(stub[l], FromImports[i]))
                    <=> LocalName(FromImports[i]) \in Referenced

C12_Witness ==
    /\ pc = "returned"
    /\ <<"F", "o", "o">> \in Referenced
    /\ <<"F", "o", "o">> \notin RequiredPlain
    /\ \E i, j \in DOMAIN FromImports :
            /\ LocalName(FromImports[i]) \in Referenced
            /\ LocalName(FromImports[j]) \notin Referenced
            /\ \E l \in DOMAIN stub : IsFromImportOf(stub[l], FromImports[i])
            /\ ~\E l \in DOMAIN stub : IsFromImportOf(stub[l], FromImports[j])

\* The section of a line of the stub: the typing import (1), a from-import
\* of the source (2), a namespace import (3), an alias definition (4); a
\* declaration is 5 and the empty line 0.
Section(line) ==
    IF line = <<>> THEN 0
    ELSE IF line[1] = "from "
    THEN IF Len(line) >= 8 /\ SubSeq(line, 2, 7) = <<"t", "y", "p", "i", "n", "g">>
                /\ line[8] = " import "
         THEN 1 ELSE 2
    ELSE IF line[1] = "import " THEN 3
    ELSE IF \E k \in DOMAIN line : line[k] = " = " THEN 4
    ELSE 5

\* The first declaration of the stub, Len(stub) + 1 when it has none.
FirstDeclaration ==
    IF \E i \in DOMAIN stub : Section(stub[i]) = 5
    THEN CHOOSE i \in DOMAIN stub :
            /\ Section(stub[i]) = 5
            /\ \A j \in 1..(i - 1) : Section(stub[j]) # 5
    ELSE Len(stub) + 1

\* The lines of the header: those before the first declaration.
Header == 1..(FirstDeclaration - 1)

\* The lines of one section of the header, in the order of the stub.
SectionLines(n) ==
    SelectSeq(SubSeq(stub, 1, FirstDeclaration - 1),
              LAMBDA line : Section(line) = n)

\* The position in the source of the from-imported name of a line.
Declared(line) ==
    CHOOSE i \in DOMAIN FromImports : IsFromImportOf(line, FromImports[i])

\* The namespace that a namespace import line makes available.
Provided(line) ==
    IF \E k \in DOMAIN line : line[k] = " as "
    THEN LET k == CHOOSE j \in DOMAIN line : line[j] = " as "
         IN  SubSeq(line, k + 1, Len(line))
    ELSE SubSeq(line, 2, Len(line))

\* C13: in a stub that get_stub returns the header lines come in the order
\* typing import, from-imports (in the order of the source), namespace
\* imports (in the lexicographic order of the namespaces), alias definitions
\* (in the order of the source); one empty line separates a section from
\* the next and the last section from the declarations, there is no other
\* empty line in the header, and a stub without a header starts with its
\* first declaration.
C13_HeaderSectionsInOrderWithOneBlankLine ==
    pc = "returned" =>
        /\ stub # <<>> => stub[1] # <<>>
        /\ \A i \in Header :
             stub[i] # <<>> =>
                IF i = Len(stub) THEN FALSE
                ELSE IF stub[i + 1] # <<>>
                THEN Section(stub[i + 1]) = Section(stub[i])
                ELSE \/ i + 1 = Len(stub)
                     \/ Section(stub[i + 2]) > Section(stub[i])
        /\ \A i \in Header : stub[i] = <<>> => stub[i - 1] # <<>>
        /\ \A i, j \in DOMAIN SectionLines(2) :
                i < j => Declared(SectionLines(2)[i]) < Declared(SectionLines(2)[j])
        /\ \A i, j \in DOMAIN SectionLines(3) :
                i < j => str_lt(Provided(SectionLines(3)[i]),
                                Provided(SectionLines(3)[j]))
        /\ SectionLines(4) =
                [i \in DOMAIN aliases |->
                    aliases[i].key \o <<" = ">> \o aliases[i].value]

C13_Witness ==
    /\ pc = "returned"
    /\ Len(SectionLines(1)) = 1
    /\ Len(SectionLines(2)) >= 2
    /\ Len(SectionLines(3)) >= 2
    /\ Len(SectionLines(4)) = 2
    /\ FirstDeclaration <= Len(stub)

(***************************************************************************)
(* Classes, their methods and the variables of their bodies: get_stub on   *)
(* sources made of class definitions, methods and assignments.             *)
(***************************************************************************)

\* The number of statements of the sources of SpecClass.
MaxClassStmts == 3

ClassStatements ==
    << \* class K: """:sig: (int) -> None"""
       ClassDef(<<"K">>, <<>>, Some(<<<<"(", "i", "n", "t", ")", " ", "-", ">", " ", "N", "o", "n", "e">>>>)),
       \* class K(int): pass
       ClassDef(<<"K">>, <<Name(<<"i", "n", "t">>)>>, None),
       \* def __init__(self, a): pass
       FunctionDef("__init__", <<>>,
                   arguments(<<arg("self", FALSE), arg("a", FALSE)>>,
                             None, <<>>, None), None),
       \* def __init__(self, a): """:sig: (str) -> None"""
       FunctionDef("__init__", <<>>,
                   arguments(<<arg("self", FALSE), arg("a", FALSE)>>,
                             None, <<>>, None),
                   Some(<<<<"(", "s", "t", "r", ")", " ", "-", ">", " ", "N", "o", "n", "e">>>>)),
       \* def m(self, a): pass
       FunctionDef("m", <<>>,
                   arguments(<<arg("self", FALSE), arg("a", FALSE)>>,
                             None, <<>>, None), None),
       \* def m(self, a): """:sig: (str) -> str"""
       FunctionDef("m", <<>>,
                   arguments(<<arg("self", FALSE), arg("a", FALSE)>>,
                             None, <<>>, None),
                   Some(<<<<"(", "s", "t", "r", ")", " ", "-", ">", " ", "s", "t", "r">>>>)),
       \* self.x = 1  # sig: int
       Assign(<<Attribute(Name("self"), "x")>>, <<<<" ", "i", "n", "t">>>>),
       \* y = 1  # sig: str
       Assign(<<Name("y")>>, <<<<" ", "s", "t", "r">>>>) >>

\* The sources of SpecClass hold no sigalias line.
ClassAliasLines == << <<>> >>

ClassNext ==
    \/ \E i \in DOMAIN ClassAliasLines : StubGenerator_init(ClassAliasLines[i])
    \/ \E i \in Upto(ClassStatements, MaxClassStmts) :
            visit_Assign(ClassStatements[i])
    \/ \E i \in Upto(ClassStatements, MaxClassStmts) :
            visit_FunctionDef(ClassStatements[i])
    \/ \E i \in Upto(ClassStatements, MaxClassStmts) :
            visit_ClassDef(ClassStatements[i])
    \/ leave
    \/ generate_stub

SpecClass == Init /\ [][ClassNext]_vars

(***************************************************************************)
(* Claims about methods and class variables, checked under SpecClass.      *)
(***************************************************************************)

\* The statements of the source that define a callable.
Callables ==
    {k \in DOMAIN source :
        source[k].node.type \in {"FunctionDef", "AsyncFunctionDef"}}

\* The signature of the docstring of a definition, None when it has none.
OwnSignature(def) ==
    IF def.docstring = None \/ def.docstring[1] = <<>> THEN None
    ELSE Some(def.docstring[1][1])

\* The statement k is directly in the body of a class definition.
DirectlyInClass(k) ==
    /\ source[k].scope # RootId
    /\ source[nodes[source[k].scope].lineno].node.type = "ClassDef"

\* The class definition whose body directly holds the statement k.
OwningClass(k) == source[nodes[source[k].scope].lineno].node

\* The governing signature of the callable of statement k: its own, or for
\* an __init__ without one that a class directly owns, the one of the class.
Governing(k) ==
    IF OwnSignature(source[k].node) # None THEN OwnSignature(source[k].node)
    ELSE IF source[k].node.name = "__init__" /\ DirectlyInClass(k)
         THEN OwnSignature(OwningClass(k))
         ELSE None

\* The stub nodes made for the statement k.
MadeFor(k) == {i \in 2..Len(nodes) : nodes[i].lineno = k}

\* The types of the parameters of a FunctionNode that have one.
TypesOf(fn) ==
    SelectSeq([j \in DOMAIN fn.parameters |-> fn.parameters[j].type_],
              LAMBDA t : t # <<>>)

\* The walk stopped with an exception in the statement k.
RaisedIn(k) == pc = "walk_raised" /\ k = Len(source)

\* C14: the FunctionNode of every callable has the parameter types and the
\* return type of its own signature when it has one; of the signature of
\* its class when it is an __init__ without a signature directly in the
\* class; and a callable without either gets no node (Any everywhere in
\* generic mode), also when its class has a signature.
C14_OwnSignatureGovernsAndClassSignatureOnlyInit ==
    \A k \in Callables :
        ~RaisedIn(k) =>
            IF Governing(k) = None
            THEN IF generic
                 THEN \E i \in MadeFor(k) :
                        /\ nodes[i].rtype = T_Any
                        /\ Range(TypesOf(nodes[i])) \subseteq {T_Any}
                 ELSE MadeFor(k) = {}
            ELSE \E i \in MadeFor(k) :
                    LET p == parse_signature(Governing(k)[1]).value
                    IN  /\ nodes[i].cls = "FunctionNode"
                        /\ nodes[i].rtype = p.return_type
                        /\ TypesOf(nodes[i]) = p.param_types[1]

\* A class with a signature, whose __init__ has its own signature and keeps
\* it, and whose other method has none and gets no node.
C14_Witness ==
    /\ ~generic
    /\ \E k, l \in Callables :
            /\ DirectlyInClass(k) /\ DirectlyInClass(l)
            /\ OwnSignature(OwningClass(k)) = Some(<<"(", "i", "n", "t", ")", " ", "-", ">", " ", "N", "o", "n", "e">>)
            /\ OwnSignature(OwningClass(l)) = Some(<<"(", "i", "n", "t", ")", " ", "-", ">", " ", "N", "o", "n", "e">>)
            /\ source[k].node.name = "__init__"
            /\ OwnSignature(source[k].node) = Some(<<"(", "s", "t", "r", ")", " ", "-", ">", " ", "N", "o", "n", "e">>)
            /\ \E i \in MadeFor(k) : TypesOf(nodes[i]) = <<<<"s", "t", "r">>>>
            /\ source[l].node.name = "m"
            /\ OwnSignature(source[l].node) = None
            /\ MadeFor(l) = {}

\* The assignments of the source that carry a signature comment.
SignedAssignments ==
    {k \in DOMAIN source :
        /\ source[k].node.type = "Assign"
        /\ source[k].node.sig_comments # <<>>}

\* The target of the assignment k (the sources assign to one target).
Target(k) == source[k].node.targets[1]

IsSelfAttribute(var) ==
    var.type = "Attribute" /\ var.value.type = "Name" /\ var.value.id = "self"

\* The statement k is directly in the body of a method: a function that a
\* class directly owns.
InMethodBody(k) ==
    /\ source[k].scope # RootId
    /\ source[nodes[source[k].scope].lineno].node.type = "FunctionDef"
    /\ DirectlyInClass(nodes[source[k].scope].lineno)

\* The number of leading INDENT pieces of a line of the stub, and the rest.
RECURSIVE Level(_)
Level(line) ==
    IF line # <<>> /\ Head(line) = INDENT THEN 1 + Level(Tail(line)) ELSE 0

Unindented(line) == SubSeq(line, Level(line) + 1, Len(line))

\* The number of nodes above a node of the stub tree.
RECURSIVE Depth(_)
Depth(n) == IF n = RootId THEN 0 ELSE 1 + Depth(nodes[n].parent)

\* Every node above n, and n itself, is a class or the root: the stub shows
\* the children of n.
RECURSIVE Shown(_)
Shown(n) ==
    \/ n = RootId
    \/ nodes[n].cls = "ClassNode" /\ Shown(nodes[n].parent)

IsVariableLine(line) ==
    Len(Unindented(line)) >= 2 /\ Unindented(line)[2] = " = ...  # type: "

\* The line h of the stub opens the class c.
OpensClass(h, c) ==
    /\ Level(stub[h]) = Depth(c) - 1
    /\ Unindented(stub[h])
        = <<"class ">> \o nodes[c].name
            \o (IF nodes[c].bases = <<>> THEN <<>>
                ELSE <<"(">> \o join(<<", ">>, nodes[c].bases) \o <<")">>)
            \o <<":">>

\* The line j of the stub declares the variable v.
DeclaresVariable(j, v) ==
    /\ Level(stub[j]) = Depth(v) - 1
    /\ Unindented(stub[j])
        = <<nodes[v].name, " = ...  # type: ">> \o nodes[v].type_

\* C18: a signed assignment to a plain name makes a VariableNode whose
\* parent is the node of the current scope; a signed assignment to
\* self.<name> directly in the body of a method makes a VariableNode whose
\* parent is the ClassNode of the class that owns the method, and the stub
\* declares it under the line that opens the class with nothing but
\* variables of that class in between.
C18_SelfAttributeBelongsToTheClassOfTheMethod ==
    \A k \in SignedAssignments :
        ~RaisedIn(k) =>
            IF Target(k).type = "Name"
            THEN \E v \in MadeFor(k) :
                    /\ nodes[v].cls = "VariableNode"
                    /\ nodes[v].name = Target(k).id
                    /\ nodes[v].parent = source[k].scope
            ELSE IsSelfAttribute(Target(k)) /\ InMethodBody(k) =>
                    \E v \in MadeFor(k) :
                        /\ nodes[v].cls = "VariableNode"
                        /\ nodes[v].name = Target(k).attr
                        /\ nodes[v].parent = nodes[source[k].scope].parent
                        /\ nodes[nodes[v].parent].cls = "ClassNode"
                        /\ pc = "returned" /\ Shown(nodes[v].parent) =>
                            \E h, j \in DOMAIN stub :
                                /\ h < j
                                /\ OpensClass(h, nodes[v].parent)
                                /\ DeclaresVariable(j, v)
                                /\ \A l \in (h + 1)..(j - 1) :
                                    /\ Level(stub[l]) = Level(stub[j])
                                    /\ IsVariableLine(stub[l])

\* A stub that declares x in class K, above the method whose body assigns
\* self.x.
C18_Witness ==
    /\ pc = "returned"
    /\ ~generic
    /\ \E k \in SignedAssignments :
            /\ IsSelfAttribute(Target(k))
            /\ InMethodBody(k)
            /\ Shown(nodes[source[k].scope].parent)
            /\ \E j \in DOMAIN stub :
                    /\ j + 1 \in DOMAIN stub
                    /\ stub[j] = <<INDENT, "x", " = ...  # type: ">> \o <<"i", "n", "t">>
                    /\ stub[j + 1][1] = INDENT
                    /\ stub[j + 1][2] = "def "

(***************************************************************************)
(* The parameters of a callable: get_stub on sources that hold one         *)
(* function with a signature, over the kinds of parameters, the names of   *)
(* the first one, the decorators and the number of types in the signature. *)
(***************************************************************************)

\* The number of positional parameters of the functions of SpecParams.
MaxPositional == 2

\* The types of the signatures, one for each position.
ParamTypes == <<T_int, T_str, T_Any, T_List, T_Dict, T_Optional>>

\* The docstring signature "(int, str, ...) -> None" with n types.
SignatureOf(n) ==
    <<"(">> \o join(<<",", " ">>, SubSeq(ParamTypes, 1, n)) \o <<")", " ", "-", ">", " ", "N", "o", "n", "e">>

\* The names of the positional parameters after the first.
OtherNames == <<"b", "c", "d">>

\* The positional parameters: n of them, the first one named `first`, the
\* last nd of them with a default value.
Positional(first, n, nd) ==
    [i \in 1..n |-> arg(IF i = 1 THEN first ELSE OtherNames[i - 1], i > n - nd)]

PositionalLists ==
    {Positional(first, n, nd) :
        first \in {"self", "cls", "a"}, n \in 0..MaxPositional,
        nd \in 0..MaxPositional} \ {<<>>}

\* The keyword-only parameters: none, k, k=1, or k=1 and l.
KeywordOnlyLists ==
    {<<>>, <<arg("k", FALSE)>>, <<arg("k", TRUE)>>,
     <<arg("k", TRUE), arg("l", FALSE)>>}

DecoratorLists ==
    {<<>>, <<Name("classmethod")>>, <<Name("staticmethod")>>}

\* def f(<args>, [*args], <kwonly>, [**kw]): """:sig: (<m types>) -> None"""
\* with as many types as the function has positional and keyword-only
\* parameters, or one less.
ParamShapes ==
    {FunctionDef("f", decos, arguments(args, va, kwonly, kw),
                 Some(<<SignatureOf(Len(args) + Len(kwonly) - less)>>)) :
        decos \in DecoratorLists,
        args \in PositionalLists \cup {<<>>},
        va \in {None, Some("args")},
        kwonly \in KeywordOnlyLists,
        kw \in {None, Some("kw")},
        less \in {0, 1}}

\* The sources of SpecParams hold no sigalias line.
ParamAliasLines == << <<>> >>

\* The function is the only statement of the source.
First(pool) == IF source = <<>> THEN pool ELSE {}

ParamNext ==
    \/ \E i \in DOMAIN ParamAliasLines : StubGenerator_init(ParamAliasLines[i])
    \/ \E d \in First(ParamShapes) : visit_FunctionDef(d)
    \/ leave
    \/ generate_stub

SpecParams == Init /\ [][ParamNext]_vars

(***************************************************************************)
(* Claims about the parameters of a callable, checked under SpecParams.    *)
(* The emitted parameter list is read from the text of the stub.           *)
(***************************************************************************)

\* The types of the signature of a definition, in the order of the text.
SignatureTypes(def) ==
    parse_signature(OwnSignature(def)[1]).value.param_types[1]

\* The number of parameters that take a type of the signature: the
\* positional ones but the receiver, and the keyword-only ones.
TypedCount(def) ==
    Len(def.args.args) + Len(def.args.kwonlyargs)
        - (IF HasReceiver(def) THEN 1 ELSE 0)

RECURSIVE SplitPieces(_, _)
SplitPieces(line, sep) ==
    IF line = <<>> THEN << <<>> >>
    ELSE LET rest == SplitPieces(Tail(line), sep)
         IN  IF Head(line) = sep THEN << <<>> >> \o rest
             ELSE << <<Head(line)>> \o rest[1] >> \o Tail(rest)

\* The line of the stub that opens the prototype of the function, and the
\* one that closes it (the same line when the prototype is on one line).
OpeningLine == CHOOSE j \in DOMAIN stub : stub[j] # <<>> /\ stub[j][1] = "def "
ClosingLine ==
    CHOOSE j \in DOMAIN stub : \E q \in DOMAIN stub[j] : stub[j][q] = ") -> "

\* The texts of the parameters in the stub, in the order of the text: the
\* parts of the parameter list that ", " separates when the list is on one
\* line, the lines without their INDENT and final comma otherwise.
EmittedDeclarations ==
    IF OpeningLine = ClosingLine
    THEN LET line == stub[OpeningLine]
             q    == CHOOSE j \in DOMAIN line : line[j] = ") -> "
         IN  IF q = 4 THEN <<>> ELSE SplitPieces(SubSeq(line, 4, q - 1), ", ")
    ELSE IF /\ ClosingLine = OpeningLine + 2
            /\ stub[OpeningLine + 1][Len(stub[OpeningLine + 1])] # ","
         THEN SplitPieces(Tail(stub[OpeningLine + 1]), ", ")
         ELSE [i \in 1..(ClosingLine - OpeningLine - 1) |->
                SubSeq(stub[OpeningLine + i], 2, Len(stub[OpeningLine + i]) - 1)]

\* The name, the type ("" when there is none) and the default marker of
\* the text of one parameter.
Emitted(decl) ==
    LET marked == decl[Len(decl)] = " = ..."
    IN  [name        |-> decl[1],
         type_       |-> IF Len(decl) >= 2 /\ decl[2] = ": "
                         THEN SubSeq(decl, 3, Len(decl) - (IF marked THEN 1 ELSE 0))
                         ELSE <<>>,
         has_default |-> marked]

EmittedParameters ==
    [i \in DOMAIN EmittedDeclarations |-> Emitted(EmittedDeclarations[i])]

\* The function of the source.
TheFunction == source[1].node

\* The parameter list the claim describes for a definition whose signature
\* has the types `types`: the parameters in the order of the source, the
\* receiver, *args, the bare * and **kwargs without a type, the i-th other
\* parameter with the i-th type.
ExpectedParameters(def, types) ==
    LET skip == IF HasReceiver(def) THEN 1 ELSE 0
        n    == Len(def.args.args)
    IN  [i \in 1..n |->
            [name  |-> def.args.args[i].arg,
             type_ |-> IF i <= skip THEN <<>> ELSE types[i - skip]]]
        \o (IF def.args.vararg # None
            THEN <<[name |-> "*" \o def.args.vararg[1], type_ |-> <<>>]>>
            ELSE IF def.args.kwonlyargs # <<>>
                 THEN <<[name |-> "*", type_ |-> <<>>]>>
                 ELSE <<>>)
        \o [i \in 1..Len(def.args.kwonlyargs) |->
            [name  |-> def.args.kwonlyargs[i].arg,
             type_ |-> types[n - skip + i]]]
        \o (IF def.args.kwarg # None
            THEN <<[name |-> "**" \o def.args.kwarg[1], type_ |-> <<>>]>>
            ELSE <<>>)

\* C16: when get_stub returns the stub of a function whose signature has as
\* many types as the function has typed parameters, the parameter list of
\* the stub holds the parameters in the order of the source, *args
\* and **kwargs without a type, a bare * before the keyword-only parameters
\* exactly when there is no *args, and the i-th type of the signature on
\* the i-th positional (the receiver left out) or keyword-only parameter.
C16_ParametersInSourceOrderWithTheirTypes ==
    /\ pc = "returned"
    /\ source # <<>>
    /\ Len(SignatureTypes(TheFunction)) = TypedCount(TheFunction)
    => [i \in DOMAIN EmittedParameters |->
            [name  |-> EmittedParameters[i].name,
             type_ |-> EmittedParameters[i].type_]]
        = ExpectedParameters(TheFunction, SignatureTypes(TheFunction))

\* The names of the parameters of a definition that have a default value.
WithDefault(def) ==
    {def.args.args[i].arg : i \in
        {j \in DOMAIN def.args.args : def.args.args[j].has_default}}
    \cup {def.args.kwonlyargs[i].arg : i \in
        {j \in DOMAIN def.args.kwonlyargs : def.args.kwonlyargs[j].has_default}}

\* C17: when get_stub returns the stub of a function, a parameter of the
\* stub has the marker " = ..." if and only if the parameter of that name
\* has a default value in the source; *args, **kwargs and the bare * have
\* none.
C17_DefaultMarkerIffDefaultInSource ==
    pc = "returned" /\ source # <<>> =>
        \A i \in DOMAIN EmittedParameters :
            EmittedParameters[i].has_default
                <=> EmittedParameters[i].name \in WithDefault(TheFunction)

(***************************************************************************)
(* Claims about the decorators of a callable, checked under Spec.          *)
(***************************************************************************)

\* The exception of an expression that has no attribute `id`.
NoAttributeId ==
    /\ ~exception.ok
    /\ exception.exc = "AttributeError"
    /\ exception.msg = <<"object has no attribute 'id'">>

\* C19: the walk never stops in a callable with the AttributeError of a
\* decorator expression: get_function_node completes whatever the shapes
\* of the decorators.
C19_NoDecoratorAbortsTheWalk ==
    \A k \in Callables :
        source[k].node.decorator_list # <<>> =>
            ~(RaisedIn(k) /\ NoAttributeId)

(***************************************************************************)
(* The layout of a prototype: FunctionNode.get_code on function nodes      *)
(* whose names and parameters bring the prototype and the parameter list   *)
(* around MAX_LINE_LENGTH.                                                 *)
(***************************************************************************)

\* The number of parameters of the function nodes of SpecProto.
MaxProtoParams == 2

\* An identifier of n characters.
RECURSIVE NameOfLength(_)
NameOfLength(n) == IF n = 1 THEN "x" ELSE "x" \o NameOfLength(n - 1)

\* The names of the functions: with the return type None a prototype
\* without parameters has 79 characters for a name of 60.
ProtoNames == {NameOfLength(n) : n \in {1, 23, 24, 59, 60, 61}}

\* The parameters: two of them with names of 36 and 37 characters make a
\* parameter list of 75 characters, which has 79 with its INDENT.
ProtoParameters ==
    {[name |-> NameOfLength(n), type_ |-> t, has_default |-> d] :
        n \in {1, 36, 37}, t \in {<<>>, T_int}, d \in BOOLEAN}

RECURSIVE ListsUpTo(_, _)
\* The sequences of at most n elements of S.
ListsUpTo(S, n) ==
    IF n = 0 THEN {<<>>}
    ELSE LET shorter == ListsUpTo(S, n - 1)
         IN  shorter \cup {Append(l, e) : l \in shorter, e \in S}

ProtoDecorators == {<<>>, << <<"classmethod">> >>}

\* A FunctionNode is made, as a child of the root.
ProtoInit ==
    /\ \E name \in ProtoNames, decorators \in ProtoDecorators,
          parameters \in ListsUpTo(ProtoParameters, MaxProtoParams) :
            nodes = add_child(<<StubNode>>, RootId,
                        FunctionNode(name, parameters, T_None, decorators))
    /\ pc = "made"
    /\ generic = FALSE
    /\ _parents = <<RootId>>
    /\ imported_namespaces = <<>>
    /\ imported_names = <<>>
    /\ defined_types = {}
    /\ required_types = {}
    /\ aliases = <<>>
    /\ frames = <<>>
    /\ source = <<>>
    /\ exception = NoException
    /\ stub = NoStub
    /\ signature = <<>>
    /\ parsed = NotRun
    /\ spc = "idle"
    /\ NoRun

\* node.get_code() of the FunctionNode.
GetCode ==
    /\ pc = "made"
    /\ stub' = FunctionNode_get_code(nodes[2])
    /\ pc' = "coded"
    /\ UNCHANGED <<generic, nodes, _parents, imported_namespaces,
                   imported_names, defined_types, required_types, aliases,
                   frames, source, exception>>
    /\ UNCHANGED sigvars
    /\ UNCHANGED runvars

ProtoNext == GetCode

SpecProto == ProtoInit /\ [][ProtoNext]_vars

(***************************************************************************)
(* Claims about the layout of a prototype, checked under SpecProto.        *)
(***************************************************************************)

\* The function node, and the lines of its code after the decorators.
TheNode == nodes[2]
PrototypeLines == SelectSeq(stub, LAMBDA line : line[1] # "@")

\* The texts of the parameters and of the return type, which the three
\* layouts share.
ParameterTexts ==
    [i \in DOMAIN TheNode.parameters |-> param_decl(TheNode.parameters[i])]
ParameterList == join(<<", ">>, ParameterTexts)
Opening == <<"def ", TheNode.name, "(">>
Closing == <<") -> ">> \o TheNode.rtype \o <<": ...">>

\* The number of characters of a line of stub text.
RECURSIVE Characters(_)
Characters(line) ==
    IF line = <<>> THEN 0 ELSE Len(Head(line)) + Characters(Tail(line))

\* C20: the code of a function node is, after its decorators: the whole
\* prototype on one line when that line has at most MAX_LINE_LENGTH
\* characters; otherwise the opening line, the indented parameter list and
\* the closing line when the indented parameter list has at most
\* MAX_LINE_LENGTH characters; otherwise the opening line, one indented line
\* ending in a comma for each parameter, and the closing line.
C20_PrototypeLayoutByLineLength ==
    pc = "coded" =>
        PrototypeLines =
            IF Characters(Opening \o ParameterList \o Closing) <= 79
            THEN <<Opening \o ParameterList \o Closing>>
            ELSE IF Characters(<<INDENT>> \o ParameterList) <= 79
                 THEN <<Opening, <<INDENT>> \o ParameterList, Closing>>
                 ELSE <<Opening>>
                        \o [i \in DOMAIN ParameterTexts |->
                                <<INDENT>> \o ParameterTexts[i] \o <<",">>]
                        \o <<Closing>>

\* A prototype of more than 79 characters whose indented parameter list has
\* exactly 79: the second layout, at its limit.
C20_Witness ==
    /\ pc = "coded"
    /\ Characters(Opening \o ParameterList \o Closing) > 79
    /\ Characters(<<INDENT>> \o ParameterList) = 79
    /\ Len(TheNode.parameters) = 2
    /\ Len(PrototypeLines) = 3

(***************************************************************************)
(* run: the loop over the sources, each of which is read, given to         *)
(* get_stub and written as a stub file when its stub is not empty.  A unit *)
(* holds one function; the arguments of the command line are taken to be   *)
(* parsed and the files to be readable and writable.                       *)
(***************************************************************************)

\* The number of units of a run.
MaxUnits == 2

RunStatements ==
    << \* def f(a): """:sig: (int) -> None"""
       FunctionDef("f", <<>>,
                   arguments(<<arg("a", FALSE)>>, None, <<>>, None),
                   Some(<<<<"(", "i", "n", "t", ")", " ", "-", ">", " ", "N", "o", "n", "e">>>>)),
       \* def f(a): """:sig: (int -> None"""
       FunctionDef("f", <<>>,
                   arguments(<<arg("a", FALSE)>>, None, <<>>, None),
                   Some(<<<<"(", "i", "n", "t", " ", "-", ">", " ", "N", "o", "n", "e">>>>)),
       \* def f(): """:sig: (int) -> None"""
       FunctionDef("f", <<>>, arguments(<<>>, None, <<>>, None),
                   Some(<<<<"(", "i", "n", "t", ")", " ", "-", ">", " ", "N", "o", "n", "e">>>>)),
       \* def g(a): """:sig: (Foo) -> Bar"""
       FunctionDef("g", <<>>,
                   arguments(<<arg("a", FALSE)>>, None, <<>>, None),
                   Some(<<<<"(", "F", "o", "o", ")", " ", "-", ">", " ", "B", "a", "r">>>>)),
       \* def f(a): pass
       FunctionDef("f", <<>>,
                   arguments(<<arg("a", FALSE)>>, None, <<>>, None), None) >>

\* sources = _collect_sources(arguments.files, arguments.modules)
RunInit ==
    /\ sources \in ListsUpTo(DOMAIN RunStatements, MaxUnits)
    /\ unit = 0
    /\ files = <<>>
    /\ generic \in BOOLEAN
    /\ pc = "run"
    /\ Fresh
    /\ signature = <<>>
    /\ parsed = NotRun
    /\ spc = "idle"

\* The next iteration of `for source, subpath in sources`, up to the call
\* of get_stub, which makes a generator.
next_source ==
    /\ pc = "run"
    /\ unit < Len(sources)
    /\ unit' = unit + 1
    /\ pc' = "init"
    /\ UNCHANGED <<generic, nodes, _parents, imported_namespaces,
                   imported_names, defined_types, required_types, aliases,
                   frames, source, exception, stub, sources, files>>
    /\ UNCHANGED sigvars

\* get_stub returned: `if stub_code != "": ... stub.write_text(...)`, and
\* the generator of the unit is dropped.
write_text ==
    /\ pc = "returned"
    /\ unit > 0
    /\ files' = IF stub # <<>>
                THEN Append(files, [unit |-> unit, text |-> stub])
                ELSE files
    /\ pc' = "run"
    /\ nodes' = <<StubNode>>
    /\ _parents' = <<RootId>>
    /\ imported_namespaces' = <<>>
    /\ imported_names' = <<>>
    /\ defined_types' = {}
    /\ required_types' = {}
    /\ aliases' = <<>>
    /\ frames' = <<>>
    /\ source' = <<>>
    /\ stub' = NoStub
    /\ UNCHANGED <<generic, exception, sources, unit>>
    /\ UNCHANGED sigvars

\* get_stub raised: nothing in run catches the exception, which leaves it.
run_raises ==
    /\ pc \in {"walk_raised", "generate_raised"}
    /\ unit > 0
    /\ pc' = "run_raised"
    /\ UNCHANGED <<generic, nodes, _parents, imported_namespaces,
                   imported_names, defined_types, required_types, aliases,
                   frames, source, exception, stub>>
    /\ UNCHANGED runvars
    /\ UNCHANGED sigvars

\* The statement of the unit in process, before it is visited.
Current == IF unit > 0 /\ source = <<>> THEN {sources[unit]} ELSE {}

RunNext ==
    \/ next_source
    \/ \E i \in DOMAIN ClassAliasLines : StubGenerator_init(ClassAliasLines[i])
    \/ \E i \in Current : visit_FunctionDef(RunStatements[i])
    \/ leave
    \/ generate_stub
    \/ write_text
    \/ run_raises

SpecRun == RunInit /\ [][RunNext]_vars

(***************************************************************************)
(* Claims about run, checked under SpecRun.                                *)
(***************************************************************************)

\* run is over: it returned, or an exception left it.
RunOver == pc = "run_raised" \/ (pc = "run" /\ unit = Len(sources))

\* get_stub on the source that holds the one function def: the text, or the
\* exception.
StubAlone(def) ==
    LET r == get_function_node(def, StubNode, generic)
    IN  IF r.outcome = "raise" THEN r.exception
        ELSE IF r.outcome = "skip"
        THEN generate_stub_result(<<StubNode>>, {}, {}, <<>>, <<>>, <<>>)
        ELSE generate_stub_result(
                add_child(<<StubNode>>, RootId, MadeAt(r.stub_node, 1)),
                r.requires, {}, <<>>, <<>>, <<>>)

\* The units with a stub file.
Written == {files[i].unit : i \in DOMAIN files}

\* C21: when run is over, no unit on which get_stub fails has a stub file,
\* and every unit after such a unit whose own get_stub returns a stub that
\* is not empty has its stub file.
C21_LaterUnitsAreWrittenAfterAFailure ==
    RunOver =>
        \A i \in DOMAIN sources :
            ~StubAlone(RunStatements[sources[i]]).ok =>
                /\ i \notin Written
                /\ \A j \in (i + 1)..Len(sources) :
                        /\ StubAlone(RunStatements[sources[j]]).ok
                        /\ StubAlone(RunStatements[sources[j]]).value # <<>>
                        => j \in Written

(***************************************************************************)
(* Claims about asynchronous callables, checked under Spec.                *)
(***************************************************************************)

\* The function nodes of the module scope.
ModuleFunctions ==
    {i \in 2..Len(nodes) :
        nodes[i].cls = "FunctionNode" /\ nodes[i].parent = RootId}

\* C22: in a stub that get_stub returns, the prototype of a function of the
\* module scope starts with `async def` when the source defines it with
\* `async def`, and with `def` otherwise.
C22_AsyncDefinitionsAreEmittedAsAsync ==
    pc = "returned" =>
        \A i \in ModuleFunctions :
            \E l \in DOMAIN stub :
                /\ stub[l] # <<>>
                /\ IF source[nodes[i].lineno].node.type = "AsyncFunctionDef"
                   THEN SubSeq(stub[l], 1, 3)
                            = <<"async ", "def ", nodes[i].name>>
                   ELSE SubSeq(stub[l], 1, 2) = <<"def ", nodes[i].name>>

(***************************************************************************)
(* Claims about the report of analyze_types, checked under SpecHeader.     *)
(***************************************************************************)

\* The names the report accounts for, under its three keys.
Reported ==
    ReportSet(Report.imported) \cup ReportSet(Report.modules)
        \cup ReportSet(Report.typing)

\* The names that are builtin or defined in the unit.
BuiltinOrDefined == _BUILTIN_TYPES \cup defined_types

\* C23: when get_stub returns, no builtin type name and no name defined in
\* the unit is in the imported, modules or typing set of the report, also
\* when the name is the namespace of a required qualified name or is
\* from-imported as well.
C23_BuiltinAndDefinedNamesAreNeverReported ==
    pc = "returned" => Reported \cap BuiltinOrDefined = {}

\* The names of the variables of the module scope, as texts (a name of the
\* sources of SpecHeader is one character long).
ModuleVariableNames ==
    {<<nodes[i].name>> : i \in
        {j \in Range(nodes[RootId].children) : nodes[j].cls = "VariableNode"}}

\* The line imports the namespace ns.
ImportsNamespace(line, ns) ==
    /\ line # <<>>
    /\ line[1] = "import "
    /\ Provided(line) = ns

\* C24: when get_stub returns, the namespace of a required qualified name
\* that is the name of a variable of the module scope is in neither the
\* modules set nor the imported set of the report, and the stub has no
\* import line for it.
C24_NamespaceOfAModuleVariableIsDropped ==
    pc = "returned" =>
        \A q \in RequiredQualified :
            NamespaceOf(q) \in ModuleVariableNames =>
                /\ NamespaceOf(q) \notin ReportSet(Report.modules)
                /\ NamespaceOf(q) \notin ReportSet(Report.imported)
                /\ \A l \in DOMAIN stub :
                        ~ImportsNamespace(stub[l], NamespaceOf(q))

\* The names under which the plain imports of the source bind a namespace.
PlainImported == {LocalName(PlainImports[i]) : i \in DOMAIN PlainImports}

\* C25, as stated: when get_stub returns, the modules set of the report
\* holds no namespace that the source imports with a plain import, under
\* its own name or its alias.
C25_PlainImportedNamespacesAreNotNeeded ==
    pc = "returned" => ReportSet(Report.modules) \cap PlainImported = {}

\* C25: when get_stub returns, the modules set of the report holds no local
\* name of a from-import, and it does hold every namespace of a required
\* qualified name that the source imports with a plain import (and that is
\* neither a from-imported name nor the name of a module variable): what
\* analyze_types removes from the needed namespaces are the from-imported
\* names, never the plain imports.
C25_FromImportedNamesAreRemovedPlainImportsAreKept ==
    pc = "returned" =>
        /\ ReportSet(Report.modules) \cap LocalNames = {}
        /\ \A ns \in PlainImported \ ModuleVariableNames :
                ns \in RequiredNamespaces => ns \in ReportSet(Report.modules)

C25_Witness ==
    /\ pc = "returned"
    /\ <<"z">> \in PlainImported \cap RequiredNamespaces
    /\ <<"z">> \in ReportSet(Report.modules)
    /\ Count(<<"import ">> \o <<"x", ".", "y">> \o <<" as ">> \o <<"z">>) = 1

\* C26: when get_stub returns, the imported, modules and typing sets of the
\* report are pairwise disjoint.
C26_ReportSetsArePairwiseDisjoint ==
    pc = "returned" =>
        /\ ReportSet(Report.imported) \cap ReportSet(Report.modules) = {}
        /\ ReportSet(Report.imported) \cap ReportSet(Report.typing) = {}
        /\ ReportSet(Report.modules) \cap ReportSet(Report.typing) = {}

(***************************************************************************)
(* Claims about the from-imports of the stub, checked under SpecHeader.    *)
(***************************************************************************)

\* The text of the names of a from-import statement, as the source writes
\* them on one line.
RECURSIVE NamesText(_)
NamesText(names) ==
    IF names = <<>> THEN <<>>
    ELSE names[1].name
            \o (IF names[1].asname # None
                THEN <<" ", "a", "s", " ">> \o names[1].asname[1] ELSE <<>>)
            \o (IF Len(names) > 1 THEN <<",", " ">> ELSE <<>>)
            \o NamesText(Tail(names))

\* The module path that a from-import statement writes between `from` and
\* `import`.
ModulePath(node) ==
    CHOOSE m \in {SubSeq(node.line, 6, k) : k \in 5..Len(node.line)} :
        node.line = <<"f", "r", "o", "m", " ">> \o m \o <<" ", "i", "m", "p", "o", "r", "t", " ">> \o NamesText(node.names)

\* The line imports the name al from the module m.
RendersFrom(line, m, al) ==
    /\ IsFromImportOf(line, al)
    /\ Len(line) >= Len(m) + 2
    /\ SubSeq(line, 2, Len(m) + 1) = m
    /\ line[Len(m) + 2] = " import "

\* The from-import statements of the source.
FromStatements == {k \in DOMAIN source : source[k].node.type = "ImportFrom"}

\* C27: in a stub that get_stub returns, every from-imported name that the
\* unit refers to has a line `from M import N` or `from M import N as A`
\* with M the module path of its statement in the source (each local name
\* of the sources is imported from one module only).
C27_ReusedFromImportKeepsItsModulePath ==
    pc = "returned" =>
        \A k \in FromStatements :
            \A i \in DOMAIN source[k].node.names :
                LET al == source[k].node.names[i]
                IN  LocalName(al) \in Referenced =>
                        \E l \in DOMAIN stub :
                            RendersFrom(stub[l], ModulePath(source[k].node), al)

(***************************************************************************)
(* Claims about the tree of stub nodes, checked under SpecClass.           *)
(***************************************************************************)

\* The variables among the children of a node, in the order of the list.
VariableChildren(o) ==
    SelectSeq(nodes[o].children, LAMBDA c : nodes[c].cls = "VariableNode")

\* C28: when the walk is over, no node has two variables of the same name
\* among its children.
C28_NoOwnerHasTwoVariablesOfOneName ==
    pc = "returned" =>
        \A o \in DOMAIN nodes :
            \A i, j \in DOMAIN VariableChildren(o) :
                i # j => nodes[VariableChildren(o)[i]].name
                            # nodes[VariableChildren(o)[j]].name

\* The children of a node that are not variables, in the order of the list.
OtherChildren(o) ==
    SelectSeq(nodes[o].children, LAMBDA c : nodes[c].cls # "VariableNode")

\* The lines that get_code returns for a node, and those that
\* StubNode.get_code returns for it.
Code(o) == get_code(nodes, o)
Body(o) == StubNode_get_code(nodes, o)

\* The number of lines of the first n of the other children.
RECURSIVE LinesOfOthers(_, _)
LinesOfOthers(o, n) ==
    IF n = 0 THEN 0
    ELSE LinesOfOthers(o, n - 1) + Len(Code(OtherChildren(o)[n]))

\* Both blocks of the node are non-empty and the node is not a class.
BothBlocksOutsideAClass(o) ==
    /\ VariableChildren(o) # <<>>
    /\ OtherChildren(o) # <<>>
    /\ nodes[o].cls # "ClassNode"

\* The number of separator lines of the node.
Separators(o) == IF BothBlocksOutsideAClass(o) THEN 1 ELSE 0

\* The nodes that StubNode.get_code renders: the root and the classes.
Containers == {o \in DOMAIN nodes : nodes[o].cls \in {"StubNode", "ClassNode"}}

\* The opening of the line of a class: `class Name` or `class Name(bases)`.
ClassOpening(o) ==
    <<"class ">> \o nodes[o].name
        \o (IF nodes[o].bases = <<>> THEN <<>>
            ELSE <<"(">> \o join(<<", ">>, nodes[o].bases) \o <<")">>)

\* The lines of StubNode.get_code are the variables, in the order of the
\* children list, then the other children, in the order of the list, with
\* one empty line between the blocks exactly when both are non-empty and
\* the node is not a class.
VariablesThenOthers(o) ==
    LET V == VariableChildren(o)
        N == OtherChildren(o)
    IN  /\ Len(Body(o)) = Len(V) + Separators(o) + LinesOfOthers(o, Len(N))
        /\ \A i \in DOMAIN V : Code(V[i]) = <<Body(o)[i]>>
        /\ \A j \in DOMAIN N :
                SubSeq(Body(o),
                       Len(V) + Separators(o) + LinesOfOthers(o, j - 1) + 1,
                       Len(V) + Separators(o) + LinesOfOthers(o, j))
                    = Code(N[j])
        /\ {i \in DOMAIN Body(o) : Body(o)[i] = <<>>}
                = IF BothBlocksOutsideAClass(o) THEN {Len(V) + 1} ELSE {}

\* The lines of ClassNode.get_code: `class Name(bases): ...` alone for a
\* class without children, else `class Name(bases):` and the lines of the
\* body, each behind one INDENT.
ClassLayout(o) ==
    IF nodes[o].children = <<>>
    THEN Code(o) = << ClassOpening(o) \o <<": ...">> >>
    ELSE /\ Len(Code(o)) = 1 + Len(Body(o))
         /\ Code(o)[1] = ClassOpening(o) \o <<":">>
         /\ \A i \in DOMAIN Body(o) : Code(o)[i + 1] = <<INDENT>> \o Body(o)[i]

\* C29: when get_stub returns, the lines of every container are its
\* variables first and its other children after them, each block in the
\* order of the children list, separated by one empty line exactly when
\* both blocks are non-empty and the container is not a class; a class
\* without children is the one line `class Name(bases): ...`, a class with
\* children is its header line and its body indented by one level.
C29_VariablesFirstThenOthersAndClassLayout ==
    pc = "returned" =>
        \A o \in Containers :
            /\ VariablesThenOthers(o)
            /\ nodes[o].cls = "ClassNode" => ClassLayout(o)

\* The root holds a class with one child and, after it in its children
\* list, a variable: the stub starts with the variable and an empty line.
C29_Witness ==
    /\ pc = "returned"
    /\ \E c \in DOMAIN nodes[RootId].children :
            LET k == nodes[RootId].children[c]
            IN  /\ nodes[k].cls = "ClassNode"
                /\ \E v \in (c + 1)..Len(nodes[RootId].children) :
                        nodes[nodes[RootId].children[v]].cls = "VariableNode"
                /\ Len(nodes[k].children) = 1
                /\ Len(Code(k)) = 2
    /\ BothBlocksOutsideAClass(RootId)
    /\ stub[2] = <<>>

\* The places of the node n in the children lists: pairs of an owner and a
\* position in its list.
Places(n) ==
    {p \in (DOMAIN nodes) \X (1..Len(nodes)) :
        /\ p[2] \in DOMAIN nodes[p[1]].children
        /\ nodes[p[1]].children[p[2]] = n}

\* Following the parent links from n reaches the root in at most `steps`
\* steps.
RECURSIVE ReachesRoot(_, _)
ReachesRoot(n, steps) ==
    IF n = RootId THEN TRUE
    ELSE IF steps = 0 \/ nodes[n].parent = NoNode THEN FALSE
    ELSE ReachesRoot(nodes[n].parent, steps - 1)

\* The walk is at its end: no handler is open and no exception was raised.
WalkEnded == pc \in {"walk", "returned", "generate_raised"} /\ frames = <<>>

\* C30: after any sequence of steps of the walk the nodes are a tree under
\* the root: every other node is at one place of one children list, the
\* list of its parent; the root has no parent; the parent links lead from
\* every node to the root; and at the end of the walk _parents holds the
\* root alone.
C30_NodesAreATreeAndParentsEndAtTheRoot ==
    /\ nodes[RootId].parent = NoNode
    /\ Places(RootId) = {}
    /\ \A n \in 2..Len(nodes) :
            /\ Cardinality(Places(n)) = 1
            /\ \A p \in Places(n) : nodes[n].parent = p[1]
            /\ ReachesRoot(n, Len(nodes))
    /\ WalkEnded => _parents = <<RootId>>

\* The walk has ended after a class that holds a method that holds an
\* assignment to an attribute of self.
C30_Witness ==
    /\ pc = "returned"
    /\ _parents = <<RootId>>
    /\ \E c, f, v \in 2..Len(nodes) :
            /\ nodes[c].cls = "ClassNode" /\ nodes[c].parent = RootId
            /\ nodes[f].cls = "FunctionNode" /\ nodes[f].parent = c
            /\ nodes[v].cls = "VariableNode" /\ nodes[v].parent = c
            /\ source[nodes[v].lineno].scope = f

=============================================================================
